---- MODULE Spec2Model ----
(***************************************************************************)
(* Aurora engine: the dependency DAG (crates/engine/src/dag.rs), the       *)
(* scheduler (scheduler.rs) and the parallel executor (executor.rs).       *)
(*                                                                         *)
(* Beam names are the integers 1..NumBeams.  A Beamfile is a map from the  *)
(* defined beam names to their depends_on sets; a name that is not in the  *)
(* map's domain is an undefined beam.                                      *)
(***************************************************************************)
EXTENDS Integers, Sequences, FiniteSets, TLC

\* Bounds of the model.
NumBeams == 3
MaxPar == 2
MaxOps == 3

Names == 1..NumBeams

VARIABLES
    beams,      \* Beamfile.beams: defined beam name -> depends_on
    pc,         \* position of the calling task
    ret,        \* Result of the last constructor / API call
    target,     \* argument of the running / last execute (0: none)
    dag,        \* DependencyGraph owned by the scheduler
    requested,  \* the parallelism the executor was configured with
    max_parallelism, \* Scheduler.max_parallelism
    permits,    \* permits available on Executor.semaphore
    holders,    \* beams whose task holds a permit (_permit is alive)
    order,      \* `order` of parallel_levels: what topological_order returned
    plan,       \* ExecutionPlan of the running / last execute
    lvl,        \* index of the level the for-loop of execute is at
    idx,        \* index of the next beam to spawn in the level
    task,       \* per beam: progress of its processing in this execute
    report,     \* SharedReport
    defs,       \* Beamfile.beams: per beam its inputs, outputs and run
    fs,         \* the files of the working directory: path -> state
    cache_json, \* the file <cache_dir>/cache.json
    entries,    \* BuildCache.entries
    recorded,   \* history: per beam, what the last record of this BuildCache saw
    nops,       \* history: number of operations done on the cache and files
    opts,       \* ExecutorState.use_cache and ExecutorState.dry_run
    hist,       \* history: the previous execute and the start of this one
    bx,         \* one call of execute_beam: the beam, its position, what it did
    sx,         \* one call of interpolate / contains_variables
    cx,         \* one call of execute_beam_inner up to dry_run, with its condition
    rx,         \* one call of execute_with_streaming: the child, readers, channels
    wx          \* the watch loop: the watcher's channel, the loop's position

\* the variables of the executor
xvars == <<target, dag, requested, max_parallelism, permits, holders,
           order, plan, lvl, idx, task, report>>

\* the variables of the cache and of the files
cvars == <<defs, fs, cache_json, entries, recorded, nops, opts, hist, bx, sx, cx, rx, wx>>

vars == <<beams, pc, ret, xvars, cvars>>

----------------------------------------------------------------------------
\* Helpers

SetMax(S) == CHOOSE x \in S : \A y \in S : y <= x

SetMin(S) == CHOOSE x \in S : \A y \in S : x <= y

Range(s) == {s[i] : i \in 1..Len(s)}

Perms(S) == {f \in [1..Cardinality(S) -> S] : \A i, j \in 1..Cardinality(S) : f[i] = f[j] => i = j}

EmptyBeams == [n \in {} |-> {}]

----------------------------------------------------------------------------
\* crates/core/src/beamfile.rs

\* Beamfile.beams (HashMap<String, Beam>): every map from a set of defined
\* beam names to the depends_on of each beam.
Beamfiles == UNION {[D -> SUBSET Names] : D \in SUBSET Names}

----------------------------------------------------------------------------
\* crates/engine/src/dag.rs

EmptyDag == [nodes |-> {}, edges |-> {}]

\* neighbors_directed(node, Direction::Incoming)
Incoming(g, node) == {e[1] : e \in {x \in g.edges : x[2] = node}}

\* neighbors_directed(node, Direction::Outgoing)
Outgoing(g, node) == {e[2] : e \in {x \in g.edges : x[1] = node}}

RECURSIVE ReachFrom(_, _)
ReachFrom(g, S) ==
    LET S2 == S \cup UNION {Outgoing(g, n) : n \in S}
    IN IF S2 = S THEN S ELSE ReachFrom(g, S2)

\* petgraph is_cyclic_directed without the self-loop case.
is_cyclic_directed_no_self(g) ==
    \E n \in g.nodes : n \in ReachFrom(g, Outgoing(g, n) \ {n})

\* petgraph is_cyclic_directed: some node is reachable from itself.
is_cyclic_directed(g) ==
    \E n \in g.nodes : n \in ReachFrom(g, Outgoing(g, n))

\* DependencyGraph::detect_cycle
detect_cycle(g) == is_cyclic_directed(g)

\* DependencyGraph::from_beamfile: nodes for all beams, then the edges
\* dep -> name (BeamNotFound on an undefined dep), then the cycle check.
from_beamfile(bf) ==
    LET nodes == DOMAIN bf
        edges == {e \in Names \X Names : e[2] \in nodes /\ e[1] \in bf[e[2]]}
        g == [nodes |-> nodes, edges |-> edges]
    IN IF \E n \in nodes : \E d \in bf[n] : d \notin nodes
       THEN [err |-> "BeamNotFound", graph |-> EmptyDag]
       ELSE IF detect_cycle(g)
            THEN [err |-> "CycleDetected", graph |-> EmptyDag]
            ELSE [err |-> "Ok", graph |-> g]

RECURSIVE collect_ancestors(_, _, _)
RECURSIVE visit_neighbors(_, _, _)

\* collect_ancestors that does not recurse into the neighbours.
collect_ancestors_shallow(g, node, visited) ==
    IF node \in visited THEN visited
    ELSE visited \cup {node} \cup Incoming(g, node)

\* DependencyGraph::collect_ancestors
collect_ancestors(g, node, visited) ==
    IF node \in visited THEN visited
    ELSE visit_neighbors(g, Incoming(g, node), visited \cup {node})

\* the for loop of collect_ancestors over the incoming neighbours
visit_neighbors(g, S, visited) ==
    IF S = {} THEN visited
    ELSE LET n == CHOOSE x \in S : TRUE
         IN visit_neighbors(g, S \ {n}, collect_ancestors(g, n, visited))

\* any order of the nodes, topological or not
toposort_unordered(g) == Perms(g.nodes)

RECURSIVE toposort_from(_, _)
\* the topological orders of g that extend the prefix s
toposort_from(g, s) ==
    IF Len(s) = Cardinality(g.nodes) THEN {s}
    ELSE UNION {toposort_from(g, Append(s, n)) :
                  n \in {m \in g.nodes \ Range(s) : Incoming(g, m) \subseteq Range(s)}}

\* petgraph toposort: the possible results, every order of all the nodes
\* in which each edge points forward (none for a cyclic graph: Err).
toposort(g) == toposort_from(g, <<>>)

\* a lookup that finds every name
target_idx_any(g, t) == "Ok"

\* topological_order: self.nodes.get(target).ok_or_else(BeamNotFound)
target_idx(g, t) == IF t \in g.nodes THEN "Ok" ELSE "BeamNotFound"

\* topological_order without the restriction to the required nodes
topological_order_unfiltered(g, t, sorted) == sorted

\* DependencyGraph::topological_order for a target that is a node: the
\* toposort result `sorted` filtered to the ancestors of the target.
topological_order(g, t, sorted) ==
    LET required == collect_ancestors(g, t, {})
    IN SelectSeq(sorted, LAMBDA n : n \in required)

\* max_dep_level without the increment
max_dep_level_no_incr(depLevels) ==
    IF depLevels = {} THEN 0 ELSE SetMax(depLevels)

\* max_dep_level taking the minimum
max_dep_level_min(depLevels) ==
    IF depLevels = {} THEN 0 ELSE SetMin(depLevels) + 1

\* parallel_levels: .max().map(|l| l + 1).unwrap_or(0)
max_dep_level(depLevels) ==
    IF depLevels = {} THEN 0 ELSE SetMax(depLevels) + 1

RECURSIVE push_levels(_, _)
\* while levels.len() <= max_dep_level { levels.push(Vec::new()) }
push_levels(levels, l) ==
    IF Len(levels) <= l THEN push_levels(Append(levels, <<>>), l) ELSE levels

RECURSIVE levels_loop(_, _, _, _, _)
\* the for loop of parallel_levels over `order`; level l is levels[l + 1]
levels_loop(g, ord, i, beam_levels, levels) ==
    IF i > Len(ord) THEN levels
    ELSE LET beam_name == ord[i]
             depLevels == {beam_levels[d] :
                            d \in Incoming(g, beam_name) \cap DOMAIN beam_levels}
             l == max_dep_level(depLevels)
             padded == push_levels(levels, l)
         IN levels_loop(g, ord, i + 1, beam_levels @@ (beam_name :> l),
                        [padded EXCEPT ![l + 1] = Append(@, beam_name)])

\* a parallel_levels that puts the whole order in one level
parallel_levels_flat(g, ord) == IF ord = <<>> THEN <<>> ELSE <<ord>>

\* DependencyGraph::parallel_levels, given the topological order
parallel_levels(g, ord) ==
    IF ord = <<>> THEN <<>> ELSE levels_loop(g, ord, 1, EmptyBeams, <<>>)

----------------------------------------------------------------------------
\* crates/engine/src/scheduler.rs

\* Scheduler::with_max_parallelism without the clamp
clamp_none(max) == max

\* max.max(1)
clamp(max) == IF max >= 1 THEN max ELSE 1

\* Scheduler::execution_plan: each bucket wrapped in an ExecutionLevel
execution_plan(levels) == [k \in 1..Len(levels) |-> [beams |-> levels[k]]]

\* ExecutionPlan::all_beams
RECURSIVE all_beams(_)
all_beams(p) == IF p = <<>> THEN <<>> ELSE Head(p).beams \o all_beams(Tail(p))

----------------------------------------------------------------------------
\* crates/engine/src/cache.rs

\* the beams the cache is called with: one beam and another one
CacheBeams == {1, 2}

\* Beam.inputs / Beam.outputs are paths relative to the working directory:
\* two files
Paths == {1, 2}

\* two different byte contents of a file
Contents == {"v1", "v2"}

\* what is at a path: nothing, something that cannot be read, or a file
FileStates == {"missing", "unreadable"} \cup Contents

\* Vec<PathBuf>: the lists of distinct paths, in ascending order
PathLists ==
    {s \in UNION {[1..k -> Paths] : k \in 0..Cardinality(Paths)} :
        \A i, j \in 1..Len(s) : i < j => s[i] < s[j]}

\* Beam.run (Option<RunBlock>): None, or the commands of the block
RunBlocks ==
    {[present |-> FALSE, commands |-> <<>>],
     [present |-> TRUE, commands |-> << <<"a">>, <<"b">> >>],
     [present |-> TRUE, commands |-> << <<"a", "\n", "b">> >>]}

\* the Beam handed to the cache: its name, its depends_on and every field
\* the Beamfile gives it
Beam(n) ==
    [field \in DOMAIN defs[n] \cup {"name", "depends_on"} |->
        CASE field = "name" -> n
          [] field = "depends_on" -> beams[n]
          [] OTHER -> defs[n][field]]

\* HashMap::new
EmptyMap == [k \in {} |-> {}]

\* HashMap::insert
insert(m, k, v) == [x \in DOMAIN m \cup {k} |-> IF x = k THEN v ELSE m[x]]

\* HashMap::remove
remove(m, k) == [x \in DOMAIN m \ {k} |-> m[x]]

\* blake3::hash(..).to_hex(): distinct inputs have distinct hashes
blake3(bytes) == <<"blake3", bytes>>

\* BuildCache::hash_file: fs::read(path)?, then the hash
hash_file(f, path) ==
    IF f[path] \in Contents
    THEN [ok |-> TRUE, hash |-> blake3(f[path])]
    ELSE [ok |-> FALSE, hash |-> <<>>]

\* Path::exists
exists(f, path) == f[path] # "missing"

RECURSIVE join(_, _)
\* [&str]::join(sep)
join(strs, sep) ==
    IF strs = <<>> THEN <<>>
    ELSE IF Len(strs) = 1 THEN strs[1]
    ELSE strs[1] \o sep \o join(Tail(strs), sep)

\* a hash_commands that also hashes the commands of the pre-hooks
hash_commands_with_hooks(beam) ==
    blake3(<<IF beam.run.present THEN join(beam.run.commands, <<"\n">>) ELSE <<>>,
             beam.pre_hooks>>)

\* BuildCache::hash_commands
hash_commands(beam) ==
    blake3(IF beam.run.present THEN join(beam.run.commands, <<"\n">>) ELSE <<>>)

\* a loop over beam.inputs that does not compare the hashes
check_inputs_readable_only(entry, inputs, i, f) ==
    \A k \in i..Len(inputs) : hash_file(f, inputs[k]).ok

RECURSIVE check_inputs(_, _, _, _)
\* is_up_to_date: the loop over beam.inputs, from index i
check_inputs(entry, inputs, i, f) ==
    IF i > Len(inputs) THEN TRUE
    ELSE LET current_hash == hash_file(f, inputs[i])
         IN IF ~current_hash.ok THEN FALSE
            ELSE IF /\ inputs[i] \in DOMAIN entry.input_hashes
                    /\ entry.input_hashes[inputs[i]] = current_hash.hash
            THEN check_inputs(entry, inputs, i + 1, f)
            ELSE FALSE

\* a loop over beam.outputs that only looks whether the files exist
check_outputs_exists_only(entry, outputs, i, f) ==
    \A k \in i..Len(outputs) : exists(f, outputs[k])

RECURSIVE check_outputs(_, _, _, _)
\* is_up_to_date: the loop over beam.outputs, from index i
check_outputs(entry, outputs, i, f) ==
    IF i > Len(outputs) THEN TRUE
    ELSE IF ~exists(f, outputs[i]) THEN FALSE
    ELSE LET current_hash == hash_file(f, outputs[i])
         IN IF ~current_hash.ok THEN FALSE
            ELSE IF /\ outputs[i] \in DOMAIN entry.output_hashes
                    /\ entry.output_hashes[outputs[i]] = current_hash.hash
            THEN check_outputs(entry, outputs, i + 1, f)
            ELSE FALSE

\* an is_up_to_date that never finds a beam up to date
is_up_to_date_never(ents, beam, f) == FALSE

\* BuildCache::is_up_to_date
is_up_to_date(ents, beam, f) ==
    IF beam.name \notin DOMAIN ents THEN FALSE
    ELSE LET entry == ents[beam.name]
         IN IF entry.command_hash # hash_commands(beam) THEN FALSE
            ELSE IF ~check_inputs(entry, beam.inputs, 1, f) THEN FALSE
            ELSE check_outputs(entry, beam.outputs, 1, f)

RECURSIVE hash_existing(_, _, _, _)
\* record: the loop that hashes the files of a list, skipping those whose
\* hash_file fails
hash_existing(paths, i, f, hashes) ==
    IF i > Len(paths) THEN hashes
    ELSE LET hash == hash_file(f, paths[i])
         IN hash_existing(paths, i + 1, f,
                IF hash.ok THEN insert(hashes, paths[i], hash.hash) ELSE hashes)

\* an entry without the hashes of the outputs
new_entry_no_outputs(beam, f) ==
    [beam_name |-> beam.name,
     input_hashes |-> hash_existing(beam.inputs, 1, f, EmptyMap),
     output_hashes |-> EmptyMap,
     command_hash |-> hash_commands(beam)]

\* record: the CacheEntry it builds (the timestamp is left out)
new_entry(beam, f) ==
    [beam_name |-> beam.name,
     input_hashes |-> hash_existing(beam.inputs, 1, f, EmptyMap),
     output_hashes |-> hash_existing(beam.outputs, 1, f, EmptyMap),
     command_hash |-> hash_commands(beam)]

\* record: self.entries.insert(beam.name, entry)
record(ents, beam, f) == insert(ents, beam.name, new_entry(beam, f))

\* an invalidate that removes every entry
invalidate_all(ents, name) == EmptyMap

\* invalidate: self.entries.remove(beam_name)
invalidate(ents, name) == remove(ents, name)

\* a clear that removes nothing
clear_nothing(ents) == ents

\* clear: self.entries.clear()
clear(ents) == EmptyMap

\* cache.json does not exist
NoCacheFile == [kind |-> "missing", map |-> EmptyMap]

\* save_entries: serde_json::to_string_pretty(&self.entries), written to
\* cache.json
to_string_pretty(ents) == [kind |-> "json", map |-> ents]

\* a from_str that always gives the default
from_str_default(content) == EmptyMap

\* load_entries: serde_json::from_str(&content).unwrap_or_default()
from_str(content) == IF content.kind = "json" THEN content.map ELSE EmptyMap

\* load_entries: Ok(HashMap::new()) without the file, Err when the file
\* cannot be read as a string, else what from_str gives
load_entries(file) ==
    IF file.kind = "missing" THEN [err |-> "Ok", entries |-> EmptyMap]
    ELSE IF file.kind = "unreadable" THEN [err |-> "Io", entries |-> EmptyMap]
    ELSE [err |-> "Ok", entries |-> from_str(file)]

\* nothing recorded yet
NoHistory == [n \in {} |-> {}]

\* Executor::new: use_cache: true, dry_run: false
DefaultOpts == [use_cache |-> TRUE, dry_run |-> FALSE]

\* no execute has been called. prev: the target of the previous execute, when
\* it ran with the cache on, dry_run off, no failure and no beam skipped for
\* its condition; touched: a declared input was changed since it returned;
\* second: this execute repeats prev with the cache on and nothing touched;
\* clean: when this execute began, every beam of its plan was as its last
\* successful record saw it; cond: this execute skipped a beam for its
\* condition
NoRuns == [prev |-> 0, touched |-> FALSE, second |-> FALSE, clean |-> FALSE,
           cond |-> FALSE]

\* no execute_beam is looked at
NoBeamRun == [at |-> "none"]

\* no string is looked at
NoString == [input |-> <<>>, at |-> "none"]

\* no call of execute_beam_inner on a condition is modelled
NoCondition == [at |-> "none"]

\* no call of execute_with_streaming is modelled
NoStream == [at |-> "none"]

\* no watch loop is modelled
NoWatch == [at |-> "none"]

\* the cache and the files before anything exists
NoCache ==
    /\ defs = [n \in {} |-> {}]
    /\ fs = [p \in Paths |-> "missing"]
    /\ cache_json = NoCacheFile
    /\ entries = EmptyMap
    /\ recorded = NoHistory
    /\ nops = 0
    /\ opts = DefaultOpts
    /\ hist = NoRuns
    /\ bx = NoBeamRun
    /\ sx = NoString
    /\ cx = NoCondition
    /\ rx = NoStream
    /\ wx = NoWatch

----------------------------------------------------------------------------
\* crates/engine/src/executor.rs

NoTasks == [n \in Names |-> "none"]

\* SharedReport::new
NewReport == [executed |-> <<>>, skipped |-> <<>>, failed |-> <<>>]

\* the return sites of execute_beam_inner
InnerResults == {"Executed", "SkippedCached", "SkippedConditionFalse", "Err"}

\* an execute_beam that lists an executed beam twice
add_result_twice(rep, name, result) ==
    CASE result = "Executed" -> [rep EXCEPT !.executed = Append(Append(@, name), name)]
      [] result \in {"SkippedCached", "SkippedConditionFalse"} ->
            [rep EXCEPT !.skipped = Append(@, name)]
      [] OTHER -> [rep EXCEPT !.failed = Append(@, <<name, "CommandFailed">>)]

\* an execute_beam that drops the errors
add_result_no_error(rep, name, result) ==
    CASE result = "Executed" -> [rep EXCEPT !.executed = Append(@, name)]
      [] result \in {"SkippedCached", "SkippedConditionFalse"} ->
            [rep EXCEPT !.skipped = Append(@, name)]
      [] OTHER -> rep

\* execute_beam: the match on the result of execute_beam_inner
add_result(rep, name, result) ==
    CASE result = "Executed" -> [rep EXCEPT !.executed = Append(@, name)]
      [] result \in {"SkippedCached", "SkippedConditionFalse"} ->
            [rep EXCEPT !.skipped = Append(@, name)]
      [] OTHER -> [rep EXCEPT !.failed = Append(@, <<name, "CommandFailed">>)]

\* a has_failures that takes a skipped beam for a failure
has_failures_or_skipped(rep) == rep.failed # <<>> \/ rep.skipped # <<>>

\* a has_failures that never sees a failure
has_failures_never(rep) == FALSE

\* SharedReport::has_failures
has_failures(rep) == rep.failed # <<>>

\* a join that does not wait for the tasks
all_joined_nowait(level, t) == TRUE

\* for handle in handles { handle.await }: every spawned task has ended
all_joined(level, t) == \A i \in 1..Len(level.beams) : t[level.beams[i]] = "done"

\* an acquire that never waits
can_acquire_always(p) == TRUE

\* Semaphore::acquire completes only when a permit is available
can_acquire(p) == p > 0

\* a permit that is not given back
drop_permit_leak(p) == p

\* drop of _permit at the end of the spawned task: the permit is given back
drop_permit(p) == p + 1

Idle == pc = "idle"

Init ==
    /\ beams \in Beamfiles
    /\ pc = "parsed"
    /\ ret = "none"
    /\ target = 0
    /\ dag = EmptyDag
    /\ requested = 0
    /\ max_parallelism = 0
    /\ permits = 0
    /\ holders = {}
    /\ order = <<>>
    /\ plan = <<>>
    /\ lvl = 0
    /\ idx = 0
    /\ task = NoTasks
    /\ report = NewReport
    /\ NoCache

\* Executor::new on a machine of `cpus` cores, BuildCache::new returning
\* cacheErr: the DAG, the scheduler (num_cpus permits), the cache.
ExecutorNewStep(cpus, cacheErr) ==
    /\ pc = "parsed"
    /\ LET r == from_beamfile(beams)
       IN IF r.err # "Ok"
          THEN /\ ret' = r.err
               /\ pc' = "error"
               /\ UNCHANGED <<dag, requested, max_parallelism, permits>>
          ELSE IF cacheErr # "Ok"
          THEN /\ ret' = cacheErr
               /\ pc' = "error"
               /\ UNCHANGED <<dag, requested, max_parallelism, permits>>
          ELSE /\ ret' = "Ok"
               /\ pc' = "idle"
               /\ dag' = r.graph
               /\ requested' = cpus
               /\ max_parallelism' = clamp(cpus)
               /\ permits' = cpus
    /\ UNCHANGED <<beams, target, holders, order, plan, lvl, idx, task, report>>

\* Executor::new, the cache directory and cache.json left aside
ExecutorNew ==
    /\ \E cpus \in 1..MaxPar, cacheOk \in BOOLEAN :
         ExecutorNewStep(cpus, IF cacheOk THEN "Ok" ELSE "Io")
    /\ UNCHANGED cvars

\* Executor::with_max_parallelism
WithMaxParallelism ==
    /\ Idle
    /\ \E n \in 0..MaxPar :
         /\ requested' = n
         /\ max_parallelism' = clamp(clamp(n))
         /\ permits' = clamp(n)
    /\ ret' = "Ok"
    /\ UNCHANGED <<beams, pc, target, dag, holders, order, plan, lvl, idx, task, report>>
    /\ UNCHANGED cvars

\* Executor::execute(target): execution_plan -> parallel_levels ->
\* topological_order, then a new report; or BeamNotFound.
ExecuteStep ==
    /\ Idle
    /\ \E t \in Names :
         IF target_idx(dag, t) # "Ok"
         THEN /\ ret' = target_idx(dag, t)
              /\ target' = 0
              /\ pc' = "idle"
              /\ order' = <<>>
              /\ plan' = <<>>
              /\ lvl' = 0
         ELSE \E ord \in {topological_order(dag, t, sorted) : sorted \in toposort(dag)} :
                /\ target' = t
                /\ order' = ord
                /\ plan' = execution_plan(parallel_levels(dag, ord))
                /\ ret' = "none"
                /\ pc' = "level"
                /\ lvl' = 1
    /\ idx' = 0
    /\ task' = NoTasks
    /\ report' = NewReport
    /\ UNCHANGED <<beams, dag, requested, max_parallelism, permits, holders>>

\* Executor::execute(target), which does not touch the cache
Execute ==
    /\ ExecuteStep
    /\ UNCHANGED cvars

\* execute: the loop is over, or a failure breaks it; the report is returned.
Return ==
    /\ pc = "level"
    /\ lvl > Len(plan) \/ has_failures(report)
    /\ pc' = "returned"
    /\ ret' = "Ok"
    /\ UNCHANGED <<beams, target, dag, requested, max_parallelism, permits, holders,
                   order, plan, lvl, idx, task, report>>
    /\ UNCHANGED cvars

\* the caller is done with the returned report: the locals of the finished
\* execute are gone and the executor can be used again.
DropStep ==
    /\ pc = "returned"
    /\ pc' = "idle"
    /\ target' = 0
    /\ order' = <<>>
    /\ plan' = <<>>
    /\ lvl' = 0
    /\ idx' = 0
    /\ task' = NoTasks
    /\ report' = NewReport
    /\ UNCHANGED <<beams, ret, dag, requested, max_parallelism, permits, holders>>

\* the report of the finished execute is dropped
Drop ==
    /\ DropStep
    /\ UNCHANGED cvars

\* execute: a level of one beam runs in the calling task (execute_beam_task);
\* execute_beam_inner emits Started.
RunSingle ==
    /\ pc = "level"
    /\ lvl <= Len(plan)
    /\ ~has_failures(report)
    /\ Len(plan[lvl].beams) = 1
    /\ task' = [task EXCEPT ![plan[lvl].beams[1]] = "started"]
    /\ pc' = "direct"
    /\ UNCHANGED <<beams, ret, target, dag, requested, max_parallelism, permits, holders,
                   order, plan, lvl, idx, report>>
    /\ UNCHANGED cvars

\* execute_beam of the single beam ends: the result goes to the report, the
\* terminal event is emitted, and the loop moves to the next level.
FinishSingleStep(result) ==
    /\ pc = "direct"
    /\ report' = add_result(report, plan[lvl].beams[1], result)
    /\ task' = [task EXCEPT ![plan[lvl].beams[1]] = "done"]
    /\ lvl' = lvl + 1
    /\ pc' = "level"
    /\ UNCHANGED <<beams, ret, target, dag, requested, max_parallelism, permits, holders,
                   order, plan, idx>>
    /\ UNCHANGED cvars

\* execute_beam of the single beam ends, with any result of
\* execute_beam_inner
FinishSingle ==
    /\ pc = "direct"
    /\ task[plan[lvl].beams[1]] = "started"
    /\ \E result \in InnerResults : FinishSingleStep(result)

\* execute: a level of several beams; tokio::spawn of the next beam's task.
Spawn ==
    /\ \/ /\ pc = "level"
          /\ lvl <= Len(plan)
          /\ ~has_failures(report)
          /\ Len(plan[lvl].beams) # 1
          /\ idx' = 2
          /\ task' = [task EXCEPT ![plan[lvl].beams[1]] = "spawned"]
       \/ /\ pc = "spawn"
          /\ idx <= Len(plan[lvl].beams)
          /\ idx' = idx + 1
          /\ task' = [task EXCEPT ![plan[lvl].beams[idx]] = "spawned"]
    /\ pc' = IF idx' > Len(plan[lvl].beams) THEN "join" ELSE "spawn"
    /\ UNCHANGED <<beams, ret, target, dag, requested, max_parallelism, permits, holders,
                   order, plan, lvl, report>>
    /\ UNCHANGED cvars

\* spawned task: semaphore.acquire().await completes, then execute_beam ->
\* execute_beam_inner emits Started (no suspension point in between).
Start(b) ==
    /\ task[b] = "spawned"
    /\ can_acquire(permits)
    /\ permits' = permits - 1
    /\ holders' = holders \cup {b}
    /\ task' = [task EXCEPT ![b] = "started"]
    /\ UNCHANGED <<beams, pc, ret, target, dag, requested, max_parallelism,
                   order, plan, lvl, idx, report>>
    /\ UNCHANGED cvars

\* spawned task: execute_beam_inner returns; execute_beam adds the result to
\* the report and emits the terminal event; the task ends and _permit is
\* dropped (no suspension point in between).
FinishStep(b, result) ==
    /\ pc \in {"spawn", "join"}
    /\ report' = add_result(report, b, result)
    /\ permits' = drop_permit(permits)
    /\ holders' = holders \ {b}
    /\ task' = [task EXCEPT ![b] = "done"]
    /\ UNCHANGED <<beams, pc, ret, target, dag, requested, max_parallelism,
                   order, plan, lvl, idx>>
    /\ UNCHANGED cvars

\* the spawned task of b ends, with any result of execute_beam_inner
Finish(b) ==
    /\ task[b] = "started"
    /\ \E result \in InnerResults : FinishStep(b, result)

\* execute: every handle of the level has been awaited
Join ==
    /\ pc = "join"
    /\ all_joined(plan[lvl], task)
    /\ lvl' = lvl + 1
    /\ pc' = "level"
    /\ UNCHANGED <<beams, ret, target, dag, requested, max_parallelism, permits, holders,
                   order, plan, idx, task, report>>
    /\ UNCHANGED cvars

Next ==
    \/ ExecutorNew
    \/ WithMaxParallelism
    \/ Execute
    \/ Return
    \/ Drop
    \/ RunSingle
    \/ FinishSingle
    \/ Spawn
    \/ \E b \in Names : Start(b)
    \/ \E b \in Names : Finish(b)
    \/ Join

Spec == Init /\ [][Next]_vars

----------------------------------------------------------------------------
\* The build cache on its own: a BuildCache is constructed on the cache
\* directory, called, and dropped, while files, the Beamfile and cache.json
\* change around it.

\* a run block of two commands
TwoCommands == [present |-> TRUE, commands |-> << <<"a">>, <<"b">> >>]

\* what a record call saw: the states of the declared inputs and the run
seen(n) == [inputs |-> [p \in Range(defs[n].inputs) |-> fs[p]], run |-> defs[n].run]

CacheInit ==
    /\ beams = [n \in CacheBeams |-> {}]
    /\ pc = "closed"
    /\ ret = "none"
    /\ target = 0
    /\ dag = EmptyDag
    /\ requested = 0
    /\ max_parallelism = 0
    /\ permits = 0
    /\ holders = {}
    /\ order = <<>>
    /\ plan = <<>>
    /\ lvl = 0
    /\ idx = 0
    /\ task = NoTasks
    /\ report = NewReport
    /\ defs \in [CacheBeams -> [inputs : PathLists, outputs : PathLists, run : {TwoCommands},
                                condition : {FALSE}]]
    /\ defs[2].inputs = <<1>>
    /\ defs[2].outputs = <<>>
    /\ fs \in [Paths -> {"missing", "v1"}]
    /\ cache_json = NoCacheFile
    /\ entries = EmptyMap
    /\ recorded = NoHistory
    /\ nops = 0
    /\ opts = DefaultOpts
    /\ hist = NoRuns
    /\ bx = NoBeamRun
    /\ sx = NoString
    /\ cx = NoCondition
    /\ rx = NoStream
    /\ wx = NoWatch

\* BuildCache::new: create_dir_all when the directory is not there, then
\* load_entries
CacheNew ==
    /\ pc = "closed"
    /\ \E dirOk \in BOOLEAN :
         LET loaded == load_entries(cache_json)
         IN IF cache_json.kind = "missing" /\ ~dirOk
            THEN /\ ret' = "Io"
                 /\ UNCHANGED <<pc, entries>>
            ELSE IF loaded.err # "Ok"
            THEN /\ ret' = loaded.err
                 /\ UNCHANGED <<pc, entries>>
            ELSE /\ ret' = "Ok"
                 /\ pc' = "open"
                 /\ entries' = loaded.entries
    /\ recorded' = NoHistory
    /\ UNCHANGED <<opts, hist, beams, xvars, defs, fs, cache_json, nops, bx, sx, cx, rx, wx>>

\* the BuildCache is dropped (the process ends)
CacheClose ==
    /\ pc = "open"
    /\ pc' = "closed"
    /\ ret' = "none"
    /\ entries' = EmptyMap
    /\ recorded' = NoHistory
    /\ UNCHANGED <<opts, hist, beams, xvars, defs, fs, cache_json, nops, bx, sx, cx, rx, wx>>

\* save_entries after the map was changed to ents: fs::write succeeds or not
save_entries(ents, written) ==
    /\ cache_json' = IF written THEN to_string_pretty(ents) ELSE cache_json
    /\ ret' = IF written THEN "Ok" ELSE "Io"

\* BuildCache::record(beam, working_dir)
CacheRecord(n) ==
    /\ pc = "open"
    /\ nops < MaxOps
    /\ entries' = record(entries, Beam(n), fs)
    /\ \E written \in BOOLEAN : save_entries(entries', written)
    /\ recorded' = insert(recorded, n, seen(n))
    /\ nops' = nops + 1
    /\ UNCHANGED <<opts, hist, beams, pc, xvars, defs, fs, bx, sx, cx, rx, wx>>

\* BuildCache::invalidate(beam_name)
CacheInvalidate(n) ==
    /\ pc = "open"
    /\ nops < MaxOps
    /\ entries' = invalidate(entries, n)
    /\ \E written \in BOOLEAN : save_entries(entries', written)
    /\ nops' = nops + 1
    /\ UNCHANGED <<opts, hist, beams, pc, xvars, defs, fs, recorded, bx, sx, cx, rx, wx>>

\* BuildCache::clear
CacheClear ==
    /\ pc = "open"
    /\ nops < MaxOps
    /\ entries' = clear(entries)
    /\ \E written \in BOOLEAN : save_entries(entries', written)
    /\ nops' = nops + 1
    /\ UNCHANGED <<opts, hist, beams, pc, xvars, defs, fs, recorded, bx, sx, cx, rx, wx>>

\* a file of the working directory is written, removed or made unreadable
WriteFile(p) ==
    /\ nops < MaxOps
    /\ \E v \in FileStates \ {fs[p]} : fs' = [fs EXCEPT ![p] = v]
    /\ nops' = nops + 1
    /\ UNCHANGED <<opts, hist, beams, pc, ret, xvars, defs, cache_json, entries, recorded, bx, sx, cx, rx, wx>>

\* the Beamfile is edited: the run block of a beam changes
EditRun(n) ==
    /\ nops < MaxOps
    /\ \E r \in RunBlocks \ {defs[n].run} : defs' = [defs EXCEPT ![n].run = r]
    /\ nops' = nops + 1
    /\ UNCHANGED <<opts, hist, beams, pc, ret, xvars, fs, cache_json, entries, recorded, bx, sx, cx, rx, wx>>

\* cache.json is removed (cache clean), overwritten with something that is
\* not cache JSON, or made unreadable
ChangeCacheFile ==
    /\ nops < MaxOps
    /\ \E k \in {"missing", "unreadable", "text"} \ {cache_json.kind} :
         cache_json' = [kind |-> k, map |-> EmptyMap]
    /\ nops' = nops + 1
    /\ UNCHANGED <<opts, hist, beams, pc, ret, xvars, defs, fs, entries, recorded, bx, sx, cx, rx, wx>>

CacheNext ==
    \/ CacheNew
    \/ CacheClose
    \/ \E n \in CacheBeams : CacheRecord(n)
    \/ \E n \in CacheBeams : CacheInvalidate(n)
    \/ CacheClear
    \/ \E p \in Paths : WriteFile(p)
    \/ \E n \in CacheBeams : EditRun(n)
    \/ ChangeCacheFile

CacheSpec == CacheInit /\ [][CacheNext]_vars

----------------------------------------------------------------------------
\* The executor with its cache and the working directory: aurora run, again
\* and again on the same project.

\* the builder calls with_cache(enabled) and with_dry_run(enabled)
Options == [use_cache : BOOLEAN, dry_run : BOOLEAN]

\* the declared files of a beam
Files(n) == Range(defs[n].inputs) \cup Range(defs[n].outputs)

\* what a record call saw: the states of the declared inputs and outputs and
\* the run block
snapshot(n) ==
    [inputs |-> [p \in Range(defs[n].inputs) |-> fs[p]],
     outputs |-> [p \in Range(defs[n].outputs) |-> fs[p]],
     run |-> defs[n].run]

\* the beams of an execution plan
plan_beams(p) == UNION {Range(p[i].beams) : i \in 1..Len(p)}

\* every beam of the plan p is, now, as its last successful record saw it,
\* with every declared file there and readable
as_recorded(p) ==
    \A n \in plan_beams(p) :
        /\ n \in DOMAIN recorded
        /\ recorded[n] = snapshot(n)
        /\ \A f \in Files(n) : fs[f] \in Contents

\* the beams of the project: two beams with files, and a beam that
\* depends on both
RunBeams == CacheBeams \cup {3}

RunInit ==
    /\ beams = [n \in RunBeams |-> IF n = 3 THEN CacheBeams ELSE {}]
    /\ pc = "parsed"
    /\ ret = "none"
    /\ target = 0
    /\ dag = EmptyDag
    /\ requested = 0
    /\ max_parallelism = 0
    /\ permits = 0
    /\ holders = {}
    /\ order = <<>>
    /\ plan = <<>>
    /\ lvl = 0
    /\ idx = 0
    /\ task = NoTasks
    /\ report = NewReport
    /\ defs \in [RunBeams -> [inputs : {<<>>, <<1>>, <<2>>}, outputs : {<<>>, <<2>>},
                             run : {TwoCommands}, condition : BOOLEAN]]
    /\ defs[1] = [inputs |-> <<1>>, outputs |-> <<2>>, run |-> TwoCommands,
                  condition |-> FALSE]
    /\ defs[2].inputs = <<2>>
    /\ defs[2].outputs = <<>>
    /\ defs[3] = [inputs |-> <<>>, outputs |-> <<>>, run |-> TwoCommands,
                  condition |-> FALSE]
    /\ fs = [p \in Paths |-> IF p = 1 THEN "v1" ELSE "missing"]
    /\ cache_json = NoCacheFile
    /\ entries = EmptyMap
    /\ recorded = NoHistory
    /\ nops = 0
    /\ opts = DefaultOpts
    /\ hist = NoRuns
    /\ bx = NoBeamRun
    /\ sx = NoString
    /\ cx = NoCondition
    /\ rx = NoStream
    /\ wx = NoWatch

\* aurora run: Executor::new(..).with_cache(..).with_dry_run(..), with
\* BuildCache::new inside
RunNew ==
    /\ \E dirOk \in BOOLEAN, o \in Options :
         LET loaded == load_entries(cache_json)
             err == IF cache_json.kind = "missing" /\ ~dirOk THEN "Io" ELSE loaded.err
         IN /\ ExecutorNewStep(MaxPar, err)
            /\ entries' = IF err = "Ok" THEN loaded.entries ELSE entries
            /\ opts' = IF err = "Ok" THEN o ELSE opts
    /\ UNCHANGED <<defs, fs, cache_json, recorded, nops, hist, bx, sx, cx, rx, wx>>

\* the process ends after a run; the next aurora run starts from the parsed
\* Beamfile and what is on disk
RunExit ==
    /\ Idle
    /\ nops < MaxOps
    /\ nops' = nops + 1
    /\ pc' = "parsed"
    /\ ret' = "none"
    /\ dag' = EmptyDag
    /\ requested' = 0
    /\ max_parallelism' = 0
    /\ permits' = 0
    /\ entries' = EmptyMap
    /\ opts' = DefaultOpts
    /\ UNCHANGED <<beams, target, holders, order, plan, lvl, idx, task, report>>
    /\ UNCHANGED <<defs, fs, cache_json, recorded, hist, bx, sx, cx, rx, wx>>

\* Executor::execute(target)
RunExecute ==
    /\ nops < MaxOps
    /\ ExecuteStep
    /\ nops' = nops + 1
    /\ hist' = [hist EXCEPT
                  !.second = target' # 0 /\ hist.prev = target' /\ ~hist.touched
                             /\ opts.use_cache,
                  !.clean = target' # 0 /\ opts.use_cache /\ as_recorded(plan'),
                  !.cond = FALSE]
    /\ UNCHANGED <<defs, fs, cache_json, entries, recorded, opts, bx, sx, cx, rx, wx>>

\* the report of the finished execute is dropped
RunDrop ==
    /\ DropStep
    /\ hist' = [prev |-> IF /\ opts.use_cache
                            /\ ~opts.dry_run
                            /\ ~has_failures(report)
                            /\ ~hist.cond
                         THEN target ELSE 0,
                touched |-> FALSE, second |-> FALSE, clean |-> FALSE, cond |-> FALSE]
    /\ UNCHANGED <<defs, fs, cache_json, entries, recorded, nops, opts, bx, sx, cx, rx, wx>>

\* between two executes the user writes or removes a file of the working
\* directory
Touch(p) ==
    /\ Idle
    /\ nops < MaxOps
    /\ nops' = nops + 1
    /\ \E v \in {"missing", "v2"} \ {fs[p]} : fs' = [fs EXCEPT ![p] = v]
    /\ hist' = [hist EXCEPT !.touched = @ \/ \E n \in DOMAIN defs : p \in Range(defs[n].inputs)]
    /\ UNCHANGED <<beams, pc, ret, xvars, defs, cache_json, entries, recorded, opts, bx, sx, cx, rx, wx>>

\* the beam whose execute_beam_inner may take a step: the single beam of
\* the level, or a spawned task that holds a permit
Running(b) ==
    \/ pc = "direct" /\ b = plan[lvl].beams[1]
    \/ pc \in {"spawn", "join"} /\ b \in holders

\* a start of execute_beam_inner that does not look at dry_run
before_commands_no_dry_run(cached, condition_false, dry_run) ==
    IF cached THEN "SkippedCached"
    ELSE IF condition_false THEN "SkippedConditionFalse"
    ELSE "running"

\* execute_beam_inner before the hooks: Skipped(Cached) when the cache is on
\* and finds the beam up to date, else Skipped(ConditionFalse) when the
\* condition evaluates false, else Executed at once when dry_run is set,
\* else the commands are run
before_commands(cached, condition_false, dry_run) ==
    IF cached THEN "SkippedCached"
    ELSE IF condition_false THEN "SkippedConditionFalse"
    ELSE IF dry_run THEN "Executed"
    ELSE "running"

\* execute_beam_inner of b up to its commands: the cache check under the
\* lock, then the condition, then dry_run
Check(b) ==
    /\ Running(b)
    /\ task[b] = "started"
    /\ \E holds \in BOOLEAN :
         /\ task' = [task EXCEPT ![b] =
                       before_commands(opts.use_cache /\ is_up_to_date(entries, Beam(b), fs),
                                       defs[b].condition /\ ~holds,
                                       opts.dry_run)]
         /\ hist' = [hist EXCEPT !.cond = @ \/ task'[b] = "SkippedConditionFalse"]
    /\ UNCHANGED <<beams, pc, ret, target, dag, requested, max_parallelism, permits,
                   holders, order, plan, lvl, idx, report>>
    /\ UNCHANGED <<defs, fs, cache_json, entries, recorded, nops, opts, bx, sx, cx, rx, wx>>

\* execute_beam_inner of b: the hooks and the run block; the commands fail or
\* succeed, and write the declared outputs or leave them
Commands(b) ==
    /\ Running(b)
    /\ task[b] = "running"
    /\ \E ok \in BOOLEAN : task' = [task EXCEPT ![b] = IF ok THEN "ran" ELSE "Err"]
    /\ \E v \in {"v1", "keep"} :
         fs' = [p \in Paths |-> IF v # "keep" /\ p \in Range(defs[b].outputs)
                                THEN v ELSE fs[p]]
    /\ UNCHANGED <<beams, pc, ret, target, dag, requested, max_parallelism, permits,
                   holders, order, plan, lvl, idx, report>>
    /\ UNCHANGED <<defs, cache_json, entries, recorded, nops, opts, hist, bx, sx, cx, rx, wx>>

\* execute_beam_inner of b after its commands: cache.record(..)? under the
\* lock when the cache is on, then Ok(Executed)
Record(b) ==
    /\ Running(b)
    /\ task[b] = "ran"
    /\ IF opts.use_cache
       THEN /\ entries' = record(entries, Beam(b), fs)
            /\ \E written \in BOOLEAN :
                 /\ cache_json' = IF written THEN to_string_pretty(entries') ELSE cache_json
                 /\ task' = [task EXCEPT ![b] = IF written THEN "Executed" ELSE "Err"]
                 /\ recorded' = IF written THEN insert(recorded, b, snapshot(b))
                                ELSE remove(recorded, b)
       ELSE /\ task' = [task EXCEPT ![b] = "Executed"]
            /\ UNCHANGED <<entries, cache_json, recorded>>
    /\ UNCHANGED <<beams, pc, ret, target, dag, requested, max_parallelism, permits,
                   holders, order, plan, lvl, idx, report>>
    /\ UNCHANGED <<defs, fs, nops, opts, hist, bx, sx, cx, rx, wx>>

\* execute_beam of the single beam ends with the result of
\* execute_beam_inner
RunFinishSingle ==
    /\ pc = "direct"
    /\ task[plan[lvl].beams[1]] \in InnerResults
    /\ FinishSingleStep(task[plan[lvl].beams[1]])

\* the spawned task of b ends with the result of execute_beam_inner
RunFinish(b) ==
    /\ task[b] \in InnerResults
    /\ FinishStep(b, task[b])

RunNext ==
    \/ RunNew
    \/ RunExit
    \/ RunExecute
    \/ Return
    \/ RunDrop
    \/ \E p \in Paths : Touch(p)
    \/ RunSingle
    \/ RunFinishSingle
    \/ Spawn
    \/ \E b \in RunBeams : Start(b)
    \/ \E b \in RunBeams : Check(b)
    \/ \E b \in RunBeams : Commands(b)
    \/ \E b \in RunBeams : Record(b)
    \/ \E b \in RunBeams : RunFinish(b)
    \/ Join

RunSpec == RunInit /\ [][RunNext]_vars

----------------------------------------------------------------------------
\* One call of execute_beam: the events, the hooks and the run block run by
\* the CommandRunner, the cache record, the report.

\* Vec<String> of a hook, Vec<Command> of a run block
CommandLists == {<<"a">>, <<"a", "b">>}

\* Hook: its commands and fail_on_error
Hooks == [commands : CommandLists, fail_on_error : BOOLEAN]

\* Beam.pre_hooks, Beam.post_hooks: no hook, one hook, or two hooks of which
\* the second has one command
HookLists ==
    {<<>>} \cup {<<h>> : h \in Hooks}
           \cup {<<h, g>> : h \in Hooks, g \in {x \in Hooks : Len(x.commands) = 1}}

\* Beam.run: None, or a RunBlock with its commands and fail_fast
MainBlocks ==
    {[present |-> FALSE, commands |-> <<>>, fail_fast |-> TRUE]}
        \cup [present : {TRUE}, commands : CommandLists, fail_fast : BOOLEAN]

\* what execute_command gives for one command: Err when the process could
\* not be run, else the exit code (-1 without one) and stderr
Outcomes ==
    {[ok |-> TRUE, exit_code |-> 0, stderr |-> ""],
     [ok |-> TRUE, exit_code |-> 1, stderr |-> "E"],
     [ok |-> TRUE, exit_code |-> -1, stderr |-> ""],
     [ok |-> FALSE, exit_code |-> 0, stderr |-> "os error"]}

\* a RunBlock::new that takes fail_fast from the hook
RunBlock_new_from_hook(hook) ==
    [present |-> TRUE, commands |-> hook.commands, fail_fast |-> hook.fail_on_error]

\* execute_beam_inner: RunBlock::new(hook.commands...), whose fail_fast is
\* true
RunBlock_new(hook) ==
    [present |-> TRUE, commands |-> hook.commands, fail_fast |-> TRUE]

NoPos == [stage |-> "none", h |-> 0, c |-> 0]

EndPos == [stage |-> "end", h |-> 0, c |-> 0]

\* the run block execute_run_block is running at a position
block_at(beam, pos) ==
    CASE pos.stage = "pre" -> RunBlock_new(beam.pre_hooks[pos.h])
      [] pos.stage = "post" -> RunBlock_new(beam.post_hooks[pos.h])
      [] OTHER -> beam.run

\* loops that run the first command of the first pre-hook only
next_command_first_only(beam, pos) ==
    IF pos.stage = "pre" /\ pos.h = 1 /\ pos.c = 1 /\ beam.pre_hooks # <<>> THEN pos ELSE EndPos

RECURSIVE next_command(_, _)
\* the loops of execute_beam_inner and execute_run_block: the position of
\* the next command from pos on: each pre-hook in order, the run block when
\* there is one, each post-hook in order, then the end
next_command(beam, pos) ==
    CASE pos.stage = "pre" ->
            IF pos.h > Len(beam.pre_hooks)
            THEN next_command(beam, [stage |-> "main", h |-> 0, c |-> 1])
            ELSE IF pos.c > Len(beam.pre_hooks[pos.h].commands)
            THEN next_command(beam, [stage |-> "pre", h |-> pos.h + 1, c |-> 1])
            ELSE pos
      [] pos.stage = "main" ->
            IF ~beam.run.present \/ pos.c > Len(beam.run.commands)
            THEN next_command(beam, [stage |-> "post", h |-> 1, c |-> 1])
            ELSE pos
      [] pos.stage = "post" ->
            IF pos.h > Len(beam.post_hooks) THEN EndPos
            ELSE IF pos.c > Len(beam.post_hooks[pos.h].commands)
            THEN next_command(beam, [stage |-> "post", h |-> pos.h + 1, c |-> 1])
            ELSE pos
      [] OTHER -> EndPos

NoResult == [kind |-> "none"]

\* an execute_run_block that goes on after every command
after_command_go_on(block, c, o) == NoResult

\* an execute_run_block that fails on every non-zero exit
after_command_strict(block, c, o) ==
    IF o.ok /\ o.exit_code = 0 THEN NoResult
    ELSE [kind |-> "CommandFailed", command |-> block.commands[c],
          exit_code |-> IF o.ok THEN <<o.exit_code>> ELSE <<>>, stderr |-> <<o.stderr>>]

\* execute_run_block after execute_command of command c of the block gave
\* outcome o: the error of execute_command, or CommandFailed on a non-zero
\* exit with fail_fast, or nothing (the loop goes on)
after_command(block, c, o) ==
    IF ~o.ok
    THEN [kind |-> "CommandFailed", command |-> block.commands[c], exit_code |-> <<>>,
          stderr |-> <<o.stderr>>]
    ELSE IF o.exit_code # 0 /\ block.fail_fast
    THEN [kind |-> "CommandFailed", command |-> block.commands[c],
          exit_code |-> <<o.exit_code>>, stderr |-> <<o.stderr>>]
    ELSE NoResult

\* an execute_beam that reports every beam as executed
terminal_completed(result) == [list |-> "executed", event |-> [kind |-> "Completed"]]

\* an execute_beam that emits Failed for every beam
terminal_failed_event(result) ==
    [list |-> CASE result.kind = "Executed" -> "executed"
                [] result.kind \in {"SkippedCached", "SkippedConditionFalse"} -> "skipped"
                [] OTHER -> "failed",
     event |-> [kind |-> "Failed"]]

\* an execute_beam that takes an error for a success
terminal_error_ok(result) ==
    IF result.kind \in {"SkippedCached", "SkippedConditionFalse"}
    THEN [list |-> "skipped", event |-> [kind |-> "Skipped", reason |-> "Cached"]]
    ELSE [list |-> "executed", event |-> [kind |-> "Completed"]]

\* execute_beam: the list of the report and the terminal event of a result
terminal(result) ==
    CASE result.kind = "Executed" ->
            [list |-> "executed", event |-> [kind |-> "Completed"]]
      [] result.kind = "SkippedCached" ->
            [list |-> "skipped", event |-> [kind |-> "Skipped", reason |-> "Cached"]]
      [] result.kind = "SkippedConditionFalse" ->
            [list |-> "skipped", event |-> [kind |-> "Skipped", reason |-> "ConditionFalse"]]
      [] OTHER -> [list |-> "failed", event |-> [kind |-> "Failed"]]

BeamInit ==
    /\ beams = EmptyBeams
    /\ pc = "execute_beam"
    /\ ret = "none"
    /\ target = 0
    /\ dag = EmptyDag
    /\ requested = 0
    /\ max_parallelism = 0
    /\ permits = 0
    /\ holders = {}
    /\ order = <<>>
    /\ plan = <<>>
    /\ lvl = 0
    /\ idx = 0
    /\ task = NoTasks
    /\ report = NewReport
    /\ defs = [n \in {} |-> {}]
    /\ fs = [p \in Paths |-> "missing"]
    /\ cache_json = NoCacheFile
    /\ entries = EmptyMap
    /\ recorded = NoHistory
    /\ nops = 0
    /\ opts = DefaultOpts
    /\ hist = NoRuns
    /\ sx = NoString
    /\ cx = NoCondition
    /\ rx = NoStream
    /\ wx = NoWatch
    /\ bx \in [at : {"call"},
               beam : [pre_hooks : HookLists, run : MainBlocks, post_hooks : HookLists,
                       condition : BOOLEAN],
               use_cache : BOOLEAN,
               dry_run : BOOLEAN,
               pos : {NoPos},
               running : {FALSE},
               log : {<<>>},
               result : {NoResult},
               events : {<<>>},
               list : {"none"},
               recorded : {FALSE}]

\* the variables a step of execute_beam leaves alone
BeamFrame ==
    UNCHANGED <<beams, pc, ret, xvars, defs, fs, cache_json, entries, recorded, nops,
                opts, hist, sx, cx, rx, wx>>

\* execute_beam_inner: the beam is found in the Beamfile, Started is emitted
BeamStarted ==
    /\ bx.at = "call"
    /\ bx' = [bx EXCEPT !.at = "check", !.events = Append(@, [kind |-> "Started"])]
    /\ BeamFrame

\* execute_beam_inner: the cache check, the condition, dry_run
BeamCheck ==
    /\ bx.at = "check"
    /\ \E up_to_date \in BOOLEAN, holds \in BOOLEAN :
         LET r == before_commands(bx.use_cache /\ up_to_date,
                                  bx.beam.condition /\ ~holds, bx.dry_run)
             first == next_command(bx.beam, [stage |-> "pre", h |-> 1, c |-> 1])
         IN bx' = IF r # "running"
                  THEN [bx EXCEPT !.at = "result", !.result = [kind |-> r]]
                  ELSE [bx EXCEPT !.at = IF first = EndPos THEN "record" ELSE "commands",
                                  !.pos = first]
    /\ BeamFrame

\* execute_run_block: execute_command of the command at the position begins
StartCommand ==
    /\ bx.at = "commands"
    /\ ~bx.running
    /\ bx' = [bx EXCEPT !.running = TRUE,
                        !.log = Append(@, [ev |-> "start", pos |-> bx.pos])]
    /\ BeamFrame

\* execute_run_block: execute_command returns; the block fails or the loops
\* move to the next command
ExitCommand ==
    /\ bx.at = "commands"
    /\ bx.running
    /\ \E o \in Outcomes :
         LET r == after_command(block_at(bx.beam, bx.pos), bx.pos.c, o)
             next == next_command(bx.beam, [bx.pos EXCEPT !.c = @ + 1])
             done == [ev |-> "exit", pos |-> bx.pos, o |-> o]
         IN bx' = IF r # NoResult
                  THEN [bx EXCEPT !.running = FALSE, !.log = Append(@, done),
                                  !.at = "result", !.result = r]
                  ELSE [bx EXCEPT !.running = FALSE, !.log = Append(@, done),
                                  !.at = IF next = EndPos THEN "record" ELSE "commands",
                                  !.pos = next]
    /\ BeamFrame

\* execute_beam_inner after the post-hooks: cache.record(..)? when the cache
\* is on, then Ok(Executed)
BeamRecord ==
    /\ bx.at = "record"
    /\ \E saved \in BOOLEAN :
         bx' = IF bx.use_cache /\ ~saved
               THEN [bx EXCEPT !.at = "result", !.result = [kind |-> "Io"]]
               ELSE [bx EXCEPT !.at = "result", !.result = [kind |-> "Executed"],
                               !.recorded = bx.use_cache]
    /\ BeamFrame

\* execute_beam: the match on the result: the beam is added to a list of the
\* report and the terminal event is emitted
BeamReport ==
    /\ bx.at = "result"
    /\ bx' = [bx EXCEPT !.at = "done",
                        !.list = terminal(bx.result).list,
                        !.events = Append(@, terminal(bx.result).event)]
    /\ BeamFrame

BeamNext ==
    \/ BeamStarted
    \/ BeamCheck
    \/ StartCommand
    \/ ExitCommand
    \/ BeamRecord
    \/ BeamReport

BeamSpec == BeamInit /\ [][BeamNext]_vars

-----------------------------------------------------------------------------
(***************************************************************************)
(* interpolation.rs: interpolate and contains_variables.  A string is a    *)
(* sequence of characters; InterpSpec applies both functions to one input  *)
(* and one context.                                                        *)
(***************************************************************************)

\* the longest input made of the characters of Alphabet
MaxLen == 4

\* a dollar, the braces, a name character and a character no name can hold
Alphabet == {"$", "{", "}", "a", "-"}

RECURSIVE Strings(_)
Strings(n) ==
    IF n = 0 THEN {<<>>}
    ELSE LET shorter == Strings(n - 1)
         IN  shorter \cup {Append(s, c) : s \in {t \in shorter : Len(t) = n - 1},
                                          c \in Alphabet}

\* references of every kind parse_variable_ref knows
References ==
    {<<"$", "{", "v", "a", "r", ".", "a", "}">>,
     <<"$", "{", "e", "n", "v", ".", "a", "}">>,
     <<"$", "{", "c", "t", "x", ".", "a", "}">>,
     <<"$", "{", "b", "e", "a", "m", ".", "n", "a", "m", "e", "}">>}

Inputs == Strings(MaxLen) \cup References

\* char::is_alphanumeric, for the characters the inputs are made of
is_alphanumeric(c) == c \in {"a", "b", "c", "e", "m", "n", "r", "t", "v", "x"}

\* the values a context gives: a plain one, and one that reads as a reference
Values == {<<"x">>, <<"$", "{", "a", "}">>}

\* the names a context defines
Keys == {<<"a">>}

\* HashMap<String, String>: the maps that define some of the keys
Maps(values) == UNION {[d -> values] : d \in SUBSET Keys}

\* InterpolationContext, with the process environment get_env reads
Contexts ==
    [variables : Maps(Values),
     env : Maps({<<"x">>}),
     beam_name : {<<>>, <<<<"x">>>>},
     extra : Maps({<<"x">>})]

\* InterpolationContext::new() in a process with no environment variable
EmptyContext ==
    [variables |-> <<>>, env |-> <<>>, beam_name |-> <<>>, extra |-> <<>>]

\* Result<String>
Ok(value) == [ok |-> TRUE, value |-> value, message |-> ""]
Err(message) == [ok |-> FALSE, value |-> <<>>, message |-> message]

\* HashMap::get, as an Option: the empty sequence is None
get(map, key) == IF key \in DOMAIN map THEN <<map[key]>> ELSE <<>>

\* str::strip_prefix, as an Option
strip_prefix(name, prefix) ==
    IF Len(name) >= Len(prefix) /\ SubSeq(name, 1, Len(prefix)) = prefix
    THEN <<SubSeq(name, Len(prefix) + 1, Len(name))>>
    ELSE <<>>

\* parse_variable_ref: the loop that reads the name, from character i on
RECURSIVE read_name(_, _, _)
read_name(s, i, name) ==
    IF i > Len(s) THEN [ok |-> TRUE, name |-> name, next |-> i]
    ELSE IF s[i] = "}" THEN [ok |-> TRUE, name |-> name, next |-> i + 1]
    ELSE IF is_alphanumeric(s[i]) \/ s[i] = "_" \/ s[i] = "."
         THEN read_name(s, i + 1, Append(name, s[i]))
         ELSE [ok |-> FALSE, name |-> name, next |-> i]

\* parse_variable_ref: the kind of the reference
variable_ref(name) ==
    IF strip_prefix(name, <<"v", "a", "r", ".">>) # <<>>
    THEN [kind |-> "Variable", name |-> strip_prefix(name, <<"v", "a", "r", ".">>)[1]]
    ELSE IF strip_prefix(name, <<"e", "n", "v", ".">>) # <<>>
    THEN [kind |-> "Environment", name |-> strip_prefix(name, <<"e", "n", "v", ".">>)[1]]
    ELSE IF name = <<"b", "e", "a", "m", ".", "n", "a", "m", "e">>
    THEN [kind |-> "BeamName", name |-> <<>>]
    ELSE IF strip_prefix(name, <<"c", "t", "x", ".">>) # <<>>
    THEN [kind |-> "Extra", name |-> strip_prefix(name, <<"c", "t", "x", ".">>)[1]]
    ELSE [kind |-> "Variable", name |-> name]

\* resolve_variable
resolve_variable(var_ref, ctx) ==
    LET found == CASE var_ref.kind = "Variable" -> get(ctx.variables, var_ref.name)
                   [] var_ref.kind = "Environment" -> get(ctx.env, var_ref.name)
                   [] var_ref.kind = "BeamName" -> ctx.beam_name
                   [] OTHER -> get(ctx.extra, var_ref.name)
    IN  IF found = <<>> THEN Err("Undefined") ELSE Ok(found[1])

\* an interpolate that knows no escape: two dollars stay two dollars
RECURSIVE interpolate_from_no_escape(_, _, _, _)
interpolate_from_no_escape(s, i, result, ctx) ==
    IF i > Len(s) THEN Ok(result)
    ELSE IF s[i] # "$" THEN interpolate_from_no_escape(s, i + 1, Append(result, s[i]), ctx)
    ELSE IF i < Len(s) /\ s[i + 1] = "{"
    THEN LET read == read_name(s, i + 2, <<>>)
         IN  IF ~read.ok THEN Err("Invalid character")
             ELSE IF read.name = <<>> THEN Err("Empty variable reference")
             ELSE LET value == resolve_variable(variable_ref(read.name), ctx)
                  IN  IF ~value.ok THEN value
                      ELSE interpolate_from_no_escape(s, read.next, result \o value.value, ctx)
    ELSE interpolate_from_no_escape(s, i + 1, Append(result, "$"), ctx)

\* interpolate: the loop, from character i on
RECURSIVE interpolate_from(_, _, _, _)
interpolate_from(s, i, result, ctx) ==
    IF i > Len(s) THEN Ok(result)
    ELSE IF s[i] # "$" THEN interpolate_from(s, i + 1, Append(result, s[i]), ctx)
    ELSE IF i < Len(s) /\ s[i + 1] = "$"
    THEN interpolate_from(s, i + 2, Append(result, "$"), ctx)
    ELSE IF i < Len(s) /\ s[i + 1] = "{"
    THEN LET read == read_name(s, i + 2, <<>>)
         IN  IF ~read.ok THEN Err("Invalid character")
             ELSE IF read.name = <<>> THEN Err("Empty variable reference")
             ELSE LET value == resolve_variable(variable_ref(read.name), ctx)
                  IN  IF ~value.ok THEN value
                      ELSE interpolate_from(s, read.next, result \o value.value, ctx)
    ELSE interpolate_from(s, i + 1, Append(result, "$"), ctx)

interpolate(input, ctx) == interpolate_from(input, 1, <<>>, ctx)

\* contains_variables: some dollar has a brace right after it
contains_variables(input) ==
    \E i \in 1..Len(input) : input[i] = "$" /\ i < Len(input) /\ input[i + 1] = "{"

\* neither function has been called
NotCalled == [ok |-> FALSE, value |-> <<>>, message |-> "not called"]

InterpInit ==
    /\ beams = EmptyBeams
    /\ pc = "interpolation"
    /\ ret = "none"
    /\ target = 0
    /\ dag = EmptyDag
    /\ requested = 0
    /\ max_parallelism = 0
    /\ permits = 0
    /\ holders = {}
    /\ order = <<>>
    /\ plan = <<>>
    /\ lvl = 0
    /\ idx = 0
    /\ task = NoTasks
    /\ report = NewReport
    /\ defs = [n \in {} |-> {}]
    /\ fs = [p \in Paths |-> "missing"]
    /\ cache_json = NoCacheFile
    /\ entries = EmptyMap
    /\ recorded = NoHistory
    /\ nops = 0
    /\ opts = DefaultOpts
    /\ hist = NoRuns
    /\ bx = NoBeamRun
    /\ sx \in [input : Inputs,
               at : {"call"},
               ctx : Contexts,
               result : {NotCalled},
               contains : {<<>>}]
    /\ cx = NoCondition
    /\ rx = NoStream
    /\ wx = NoWatch

\* the variables a call on a string leaves alone
InterpFrame ==
    UNCHANGED <<beams, pc, ret, xvars, defs, fs, cache_json, entries, recorded, nops,
                opts, hist, bx, cx, rx, wx>>

\* a call of interpolate(input, ctx)
Interpolate ==
    /\ pc = "interpolation"
    /\ sx.result = NotCalled
    /\ sx' = [sx EXCEPT !.result = interpolate(sx.input, sx.ctx), !.at = "called"]
    /\ InterpFrame

\* a call of contains_variables(input)
ContainsVariables ==
    /\ pc = "interpolation"
    /\ sx.contains = <<>>
    /\ sx' = [sx EXCEPT !.contains = <<contains_variables(sx.input)>>, !.at = "called"]
    /\ InterpFrame

InterpNext ==
    \/ Interpolate
    \/ ContainsVariables

InterpSpec == InterpInit /\ [][InterpNext]_vars

-----------------------------------------------------------------------------
(***************************************************************************)
(* executor.rs: evaluate_condition, and the start of execute_beam_inner    *)
(* around it.  CondSpec runs one call of execute_beam_inner, on a beam     *)
(* with a condition tree, up to the point where the hooks would start; the *)
(* shell commands the conditions spawn are written down in cx.ran.         *)
(***************************************************************************)

\* the shell commands of Condition::Command
ConditionCommands == {"c1", "c2"}

\* Condition::FileExists, EnvSet, EnvEquals and Command
Leaves ==
    {[op |-> "FileExists"], [op |-> "EnvSet"], [op |-> "EnvEquals", value |-> "v"]}
    \cup [op : {"Command"}, run : ConditionCommands, expect_success : BOOLEAN]

\* a leaf, or Condition::Not of a leaf
Simple == Leaves \cup [op : {"Not"}, arg : Leaves]

\* Vec<Condition>: up to two simple conditions, or three commands
ArgLists ==
    {<<>>} \cup {<<a>> : a \in Simple} \cup {<<a, b>> : a, b \in Simple}
    \cup {<<[op |-> "Command", run |-> a, expect_success |-> TRUE],
            [op |-> "Command", run |-> b, expect_success |-> TRUE],
            [op |-> "Command", run |-> c, expect_success |-> TRUE]>> :
          a, b, c \in ConditionCommands}

\* Condition
Conditions == Simple \cup [op : {"And", "Or"}, args : ArgLists]

\* what a condition looks at: the file, the environment variable, and how
\* each shell command ends (exit code 0, exit code 1, or it cannot be run)
Environments ==
    [file : BOOLEAN,
     var : {"unset", "v", "w"},
     cmd : [ConditionCommands -> {"exit 0", "exit 1", "error"}]]

\* Condition::Command: (r.exit_code == 0) == expect_success, and
\* !expect_success when the command cannot be run
command_holds(outcome, expect_success) ==
    IF outcome = "error" THEN ~expect_success
    ELSE (outcome = "exit 0") = expect_success

\* an And that goes on after a false child
and_returns_never(value) == FALSE

\* Condition::And: if !evaluate_condition(c) { return false; }
and_returns(value) == ~value

\* Condition::Or: if evaluate_condition(c) { return true; }
or_returns(value) == value

RECURSIVE evaluate_condition(_, _)
RECURSIVE all_of(_, _, _)
RECURSIVE any_of(_, _, _)

\* Condition::And: the loop over the children, from child i on
all_of(conditions, i, env) ==
    IF i > Len(conditions) THEN [value |-> TRUE, ran |-> <<>>]
    ELSE LET r == evaluate_condition(conditions[i], env)
         IN  IF and_returns(r.value) THEN [value |-> FALSE, ran |-> r.ran]
             ELSE LET rest == all_of(conditions, i + 1, env)
                  IN  [value |-> rest.value, ran |-> r.ran \o rest.ran]

\* Condition::Or: the loop over the children, from child i on
any_of(conditions, i, env) ==
    IF i > Len(conditions) THEN [value |-> FALSE, ran |-> <<>>]
    ELSE LET r == evaluate_condition(conditions[i], env)
         IN  IF or_returns(r.value) THEN [value |-> TRUE, ran |-> r.ran]
             ELSE LET rest == any_of(conditions, i + 1, env)
                  IN  [value |-> rest.value, ran |-> r.ran \o rest.ran]

\* evaluate_condition: its value and the shell commands it ran, in order
evaluate_condition(condition, env) ==
    CASE condition.op = "FileExists" -> [value |-> env.file, ran |-> <<>>]
      [] condition.op = "EnvSet" -> [value |-> env.var # "unset", ran |-> <<>>]
      [] condition.op = "EnvEquals" -> [value |-> env.var = condition.value, ran |-> <<>>]
      [] condition.op = "Command" ->
            [value |-> command_holds(env.cmd[condition.run], condition.expect_success),
             ran |-> <<condition.run>>]
      [] condition.op = "And" -> all_of(condition.args, 1, env)
      [] condition.op = "Or" -> any_of(condition.args, 1, env)
      [] OTHER -> LET r == evaluate_condition(condition.arg, env)
                  IN  [value |-> ~r.value, ran |-> r.ran]

CondInit ==
    /\ beams = EmptyBeams
    /\ pc = "execute_beam_inner"
    /\ ret = "none"
    /\ target = 0
    /\ dag = EmptyDag
    /\ requested = 0
    /\ max_parallelism = 0
    /\ permits = 0
    /\ holders = {}
    /\ order = <<>>
    /\ plan = <<>>
    /\ lvl = 0
    /\ idx = 0
    /\ task = NoTasks
    /\ report = NewReport
    /\ defs = [n \in {} |-> {}]
    /\ fs = [p \in Paths |-> "missing"]
    /\ cache_json = NoCacheFile
    /\ entries = EmptyMap
    /\ recorded = NoHistory
    /\ nops = 0
    /\ opts = DefaultOpts
    /\ hist = NoRuns
    /\ bx = NoBeamRun
    /\ sx = NoString
    /\ rx = NoStream
    /\ wx = NoWatch
    /\ cx \in [at : {"cache"},
               condition : {<<>>} \cup {<<c>> : c \in Conditions},
               env : Environments,
               cached : BOOLEAN,
               dry_run : BOOLEAN,
               value : {<<>>},
               ran : {<<>>},
               result : {"none"}]

\* the variables a step of execute_beam_inner leaves alone
CondFrame ==
    UNCHANGED <<beams, pc, ret, xvars, defs, fs, cache_json, entries, recorded, nops,
                opts, hist, bx, sx, rx, wx>>

\* execute_beam_inner: the cache check
CondCached ==
    /\ pc = "execute_beam_inner"
    /\ cx.at = "cache"
    /\ cx' = IF before_commands(cx.cached, FALSE, FALSE) = "SkippedCached"
             THEN [cx EXCEPT !.at = "done", !.result = "SkippedCached"]
             ELSE [cx EXCEPT !.at = "condition"]
    /\ CondFrame

\* execute_beam_inner: if let Some(condition) = &beam.condition, it is
\* evaluated, and the beam is skipped when it does not hold
CondEvaluate ==
    /\ pc = "execute_beam_inner"
    /\ cx.at = "condition"
    /\ cx' = IF cx.condition = <<>>
             THEN [cx EXCEPT !.at = "dry_run"]
             ELSE LET r == evaluate_condition(cx.condition[1], cx.env)
                  IN  IF before_commands(FALSE, ~r.value, FALSE) = "SkippedConditionFalse"
                      THEN [cx EXCEPT !.at = "done", !.value = <<r.value>>, !.ran = r.ran,
                                      !.result = "SkippedConditionFalse"]
                      ELSE [cx EXCEPT !.at = "dry_run", !.value = <<r.value>>, !.ran = r.ran]
    /\ CondFrame

\* execute_beam_inner: if state.dry_run, Executed is returned; else the
\* hooks and the run block follow
CondDryRun ==
    /\ pc = "execute_beam_inner"
    /\ cx.at = "dry_run"
    /\ cx' = IF before_commands(FALSE, FALSE, cx.dry_run) = "Executed"
             THEN [cx EXCEPT !.at = "done", !.result = "Executed"]
             ELSE [cx EXCEPT !.at = "hooks"]
    /\ CondFrame

CondNext ==
    \/ CondCached
    \/ CondEvaluate
    \/ CondDryRun

CondSpec == CondInit /\ [][CondNext]_vars

-----------------------------------------------------------------------------
(***************************************************************************)
(* The cache and a Beamfile that is edited in everything a beam has:       *)
(* StaleSpec records beams, writes files, and changes hooks, env,          *)
(* condition and depends_on between the calls.                             *)
(***************************************************************************)

\* Beam.env: empty, or one variable
Envs == {EmptyMap, [k \in {"K"} |-> "1"]}

\* a hook of one command
OneHook == [commands |-> <<"a">>, fail_on_error |-> TRUE]

\* the parts of a beam that are neither its name, its run block nor its
\* declared files
OtherFields == {"pre_hooks", "post_hooks", "env", "condition", "depends_on"}

StaleInit ==
    /\ beams = [n \in CacheBeams |-> {}]
    /\ pc = "closed"
    /\ ret = "none"
    /\ target = 0
    /\ dag = EmptyDag
    /\ requested = 0
    /\ max_parallelism = 0
    /\ permits = 0
    /\ holders = {}
    /\ order = <<>>
    /\ plan = <<>>
    /\ lvl = 0
    /\ idx = 0
    /\ task = NoTasks
    /\ report = NewReport
    /\ defs = [n \in CacheBeams |->
                 [inputs |-> <<1>>,
                  outputs |-> IF n = 1 THEN <<2>> ELSE <<>>,
                  run |-> TwoCommands,
                  condition |-> FALSE,
                  env |-> EmptyMap,
                  pre_hooks |-> <<>>,
                  post_hooks |-> <<>>]]
    /\ fs \in [Paths -> {"missing", "v1"}]
    /\ cache_json = NoCacheFile
    /\ entries = EmptyMap
    /\ recorded = NoHistory
    /\ nops = 0
    /\ opts = DefaultOpts
    /\ hist = NoRuns
    /\ bx = NoBeamRun
    /\ sx = NoString
    /\ cx = NoCondition
    /\ rx = NoStream
    /\ wx = NoWatch

\* the Beamfile is edited: the pre-hooks, the post-hooks, the env, the
\* condition or the depends_on of a beam change (beam 2 comes to depend on
\* beam 1, or no longer does)
EditOther(n) ==
    /\ nops < MaxOps
    /\ \E field \in OtherFields :
         /\ defs' = CASE field = "pre_hooks" ->
                           [defs EXCEPT ![n].pre_hooks = IF @ = <<>> THEN <<OneHook>> ELSE <<>>]
                      [] field = "post_hooks" ->
                           [defs EXCEPT ![n].post_hooks = IF @ = <<>> THEN <<OneHook>> ELSE <<>>]
                      [] field = "env" ->
                           [defs EXCEPT ![n].env = CHOOSE e \in Envs : e # @]
                      [] field = "condition" ->
                           [defs EXCEPT ![n].condition = ~@]
                      [] OTHER -> defs
         /\ beams' = IF field = "depends_on" /\ n = 2
                     THEN [beams EXCEPT ![2] = IF @ = {} THEN {1} ELSE {}]
                     ELSE beams
         /\ field = "depends_on" => n = 2
    /\ nops' = nops + 1
    /\ UNCHANGED <<opts, hist, pc, ret, xvars, fs, cache_json, entries, recorded,
                   bx, sx, cx, rx, wx>>

StaleNext ==
    \/ CacheNew
    \/ CacheClose
    \/ \E n \in CacheBeams : CacheRecord(n)
    \/ \E p \in Paths : WriteFile(p)
    \/ \E n \in CacheBeams : EditRun(n)
    \/ \E n \in CacheBeams : EditOther(n)

StaleSpec == StaleInit /\ [][StaleNext]_vars

-----------------------------------------------------------------------------
(***************************************************************************)
(* runner.rs: execute_with_streaming.  StreamSpec runs one call: the child *)
(* writes its lines into the two pipes, each reader task takes a line from *)
(* its pipe, hands it to the callback and sends it into its channel, and   *)
(* the caller waits for the child, drops the receivers and joins the       *)
(* readers.  Lines are counted, not kept.                                  *)
(***************************************************************************)

\* mpsc::channel::<String>(100): the lines a channel holds
ChannelCapacity == 100

\* the lines a pipe of the operating system holds before a write blocks
PipeCapacity == 2

\* an output of more lines than a channel and a pipe hold together
LongOutput == ChannelCapacity + PipeCapacity + 2

\* stdout and stderr
Streams == {"stdout", "stderr"}

\* the numbers of lines the child writes on a stream
Totals == {0, 1, LongOutput}

\* a stream before the child has written: total lines the child will write,
\* lines written into the pipe, lines the reader has read (and handed to the
\* callback), calls of the callback, lines in the channel, and where the
\* reader task is
NewStream(total) ==
    [total |-> total, written |-> 0, read |-> 0, callbacks |-> 0, queued |-> 0,
     reader |-> "next_line"]

StreamInit ==
    /\ beams = EmptyBeams
    /\ pc = "execute_with_streaming"
    /\ ret = "none"
    /\ target = 0
    /\ dag = EmptyDag
    /\ requested = 0
    /\ max_parallelism = 0
    /\ permits = 0
    /\ holders = {}
    /\ order = <<>>
    /\ plan = <<>>
    /\ lvl = 0
    /\ idx = 0
    /\ task = NoTasks
    /\ report = NewReport
    /\ defs = [n \in {} |-> {}]
    /\ fs = [p \in Paths |-> "missing"]
    /\ cache_json = NoCacheFile
    /\ entries = EmptyMap
    /\ recorded = NoHistory
    /\ nops = 0
    /\ opts = DefaultOpts
    /\ hist = NoRuns
    /\ bx = NoBeamRun
    /\ sx = NoString
    /\ cx = NoCondition
    /\ wx = NoWatch
    /\ \E out \in Totals, err \in Totals :
         rx = [at |-> "wait",
               child |-> "running",
               receivers |-> "held",
               stdout |-> NewStream(out),
               stderr |-> NewStream(err)]

\* the variables a step of execute_with_streaming leaves alone
StreamFrame ==
    UNCHANGED <<beams, pc, ret, xvars, defs, fs, cache_json, entries, recorded, nops,
                opts, hist, bx, sx, cx, wx>>

\* the child writes its next line on stream s: the pipe has room for it
ChildWrite(s) ==
    /\ rx.at # "none"
    /\ rx.child = "running"
    /\ rx[s].written < rx[s].total
    /\ rx[s].written - rx[s].read < PipeCapacity
    /\ rx' = [rx EXCEPT ![s].written = @ + 1]
    /\ StreamFrame

\* the child has written all its lines and exits: its ends of the pipes are
\* closed
ChildExit ==
    /\ rx.at # "none"
    /\ rx.child = "running"
    /\ \A s \in Streams : rx[s].written = rx[s].total
    /\ rx' = [rx EXCEPT !.child = "exited"]
    /\ StreamFrame

\* reader task of s: lines.next_line() gives a line; the callback is called
\* and the line is pushed to collected
ReaderLine(s) ==
    /\ rx.at # "none"
    /\ rx[s].reader = "next_line"
    /\ rx[s].read < rx[s].written
    /\ rx' = [rx EXCEPT ![s].read = @ + 1, ![s].callbacks = @ + 1, ![s].reader = "send"]
    /\ StreamFrame

\* Sender::send(line).await completes: the channel has room, or the receiver
\* was dropped (the error is ignored)
can_send(queued, receivers) == queued < ChannelCapacity \/ receivers = "dropped"

\* reader task of s: let _ = tx.send(line).await
ReaderSend(s) ==
    /\ rx.at # "none"
    /\ rx[s].reader = "send"
    /\ can_send(rx[s].queued, rx.receivers)
    /\ rx' = [rx EXCEPT ![s].queued = IF rx.receivers = "dropped" THEN @ ELSE @ + 1,
                        ![s].reader = "next_line"]
    /\ StreamFrame

\* reader task of s: lines.next_line() gives None at the end of the pipe; the
\* task ends with collected.join("\n")
ReaderEnd(s) ==
    /\ rx.at # "none"
    /\ rx[s].reader = "next_line"
    /\ rx.child = "exited"
    /\ rx[s].read = rx[s].written
    /\ rx' = [rx EXCEPT ![s].reader = "done"]
    /\ StreamFrame

\* the caller: child.wait().await completes, then both receivers are dropped
WaitChild ==
    /\ rx.at = "wait"
    /\ rx.child = "exited"
    /\ rx' = [rx EXCEPT !.at = "join", !.receivers = "dropped",
                        !.stdout.queued = 0, !.stderr.queued = 0]
    /\ StreamFrame

\* the caller: both handles are awaited, then Ok(CommandResult)
JoinReaders ==
    /\ rx.at = "join"
    /\ \A s \in Streams : rx[s].reader = "done"
    /\ rx' = [rx EXCEPT !.at = "returned"]
    /\ StreamFrame

StreamNext ==
    \/ \E s \in Streams : ChildWrite(s)
    \/ ChildExit
    \/ \E s \in Streams : ReaderLine(s)
    \/ \E s \in Streams : ReaderSend(s)
    \/ \E s \in Streams : ReaderEnd(s)
    \/ WaitChild
    \/ JoinReaders

StreamSpec == StreamInit /\ [][StreamNext]_vars

-----------------------------------------------------------------------------
(***************************************************************************)
(* cli/src/commands/watch.rs: run_watch_loop after the initial build.  The *)
(* watcher's callback sends changed paths into a channel; the loop         *)
(* receives one, drops it when the last build ended less than DEBOUNCE_MS  *)
(* ago, else empties the channel and builds.                               *)
(***************************************************************************)

\* mpsc::channel::<PathBuf>(100): the events the channel holds
WatchChannelCapacity == 100

\* the file-change events of one run of the loop
MaxEvents == 6

\* the loop after the initial build: last_rebuild = Instant::now(), nothing
\* in the channel.  queued: events in the channel; since: whether
\* DEBOUNCE_MS have passed since last_rebuild; events: events delivered so
\* far; unserved: an event was delivered and no build has started since;
\* builds: rebuilds started
WatchStart ==
    [at |-> "recv", queued |-> 0, since |-> "within", events |-> 0, unserved |-> FALSE,
     builds |-> 0]

WatchInit ==
    /\ beams = EmptyBeams
    /\ pc = "run_watch_loop"
    /\ ret = "none"
    /\ target = 0
    /\ dag = EmptyDag
    /\ requested = 0
    /\ max_parallelism = 0
    /\ permits = 0
    /\ holders = {}
    /\ order = <<>>
    /\ plan = <<>>
    /\ lvl = 0
    /\ idx = 0
    /\ task = NoTasks
    /\ report = NewReport
    /\ defs = [n \in {} |-> {}]
    /\ fs = [p \in Paths |-> "missing"]
    /\ cache_json = NoCacheFile
    /\ entries = EmptyMap
    /\ recorded = NoHistory
    /\ nops = 0
    /\ opts = DefaultOpts
    /\ hist = NoRuns
    /\ bx = NoBeamRun
    /\ sx = NoString
    /\ cx = NoCondition
    /\ rx = NoStream
    /\ wx = WatchStart

\* the variables a step of the watch loop leaves alone
WatchFrame ==
    UNCHANGED <<beams, pc, ret, xvars, defs, fs, cache_json, entries, recorded, nops,
                opts, hist, bx, sx, cx, rx>>

\* the watcher's callback: tx_clone.blocking_send(path), at any time, also
\* while a build runs
FileEvent ==
    /\ wx.at # "none"
    /\ wx.events < MaxEvents
    /\ wx.queued < WatchChannelCapacity
    /\ wx' = [wx EXCEPT !.queued = @ + 1, !.events = @ + 1, !.unserved = TRUE]
    /\ WatchFrame

\* DEBOUNCE_MS pass after last_rebuild
DebounceElapsed ==
    /\ wx.at = "recv"
    /\ wx.since = "within"
    /\ wx' = [wx EXCEPT !.since = "past"]
    /\ WatchFrame

\* the loop: rx.recv() gives an event; within the debounce interval it is
\* dropped (continue); else the channel is drained and run_build starts
WatchRecv ==
    /\ wx.at = "recv"
    /\ wx.queued > 0
    /\ wx' = IF wx.since = "within"
             THEN [wx EXCEPT !.queued = @ - 1]
             ELSE [wx EXCEPT !.queued = 0, !.at = "build", !.unserved = FALSE,
                             !.builds = @ + 1]
    /\ WatchFrame

\* run_build returns; last_rebuild = Instant::now()
BuildDone ==
    /\ wx.at = "build"
    /\ wx' = [wx EXCEPT !.at = "recv", !.since = "within"]
    /\ WatchFrame

WatchNext ==
    \/ FileEvent
    \/ DebounceElapsed
    \/ WatchRecv
    \/ BuildDone

WatchSpec == WatchInit /\ [][WatchNext]_vars

----------------------------------------------------------------------------
\* Vocabulary of the properties

RECURSIVE DepClosure(_)
\* the names reachable through depends_on from the names in S
DepClosure(S) ==
    LET S2 == S \cup UNION {beams[n] : n \in S \cap DOMAIN beams}
    IN IF S2 = S THEN S ELSE DepClosure(S2)

\* the beams b depends on, directly or transitively
TransDeps(b) == DepClosure(beams[b])

ExecutedNames == Range(report.executed)

SkippedNames == Range(report.skipped)

FailedNames == {report.failed[i][1] : i \in 1..Len(report.failed)}

\* b has a terminal outcome in this run
Terminal(b) == b \in ExecutedNames \cup SkippedNames \cup FailedNames

\* the Started event of b has been emitted in this run
Started(b) == task[b] \in {"started", "done"}

\* Started was emitted and no terminal outcome yet
InFlight == {b \in Names : task[b] = "started"}

Planned == UNION {Range(plan[k].beams) : k \in 1..Len(plan)}

\* the (1-based) plan level of a planned beam
LevelOf(b) == CHOOSE k \in 1..Len(plan) : b \in Range(plan[k].beams)

Max2(a, b) == IF a >= b THEN a ELSE b

----------------------------------------------------------------------------
\* C1: during execute, a beam is started only after every beam it
\* transitively depends on has a terminal outcome in this run, and that
\* outcome is executed or skipped, never failed.
C1_StartedAfterDeps ==
    \A b \in DOMAIN beams :
        Started(b) =>
            \A d \in TransDeps(b) : d \in ExecutedNames \cup SkippedNames

\* a beam is running that has a dependency it does not name itself
C1_Witness ==
    \E b \in DOMAIN beams :
        /\ task[b] = "started"
        /\ TransDeps(b) \ beams[b] # {}
        /\ SkippedNames # {}

\* C2: every beam of plan level k has a terminal outcome before any beam of
\* level k+1 is started.
C2_LevelBarrier ==
    \A k \in 1..Len(plan) : \A j \in 1..Len(plan) :
        (j < k /\ \E b \in Range(plan[k].beams) : Started(b)) =>
            \A a \in Range(plan[j].beams) : Terminal(a)

\* a beam is running whose previous level had two beams
C2_Witness ==
    \E k \in 2..Len(plan) :
        /\ Len(plan[k - 1].beams) >= 2
        /\ \E b \in Range(plan[k].beams) : task[b] = "started"

\* C3: at no instant are more than max(n,1) beams in flight, n being the
\* parallelism the executor was configured with; with n = 1 or n = 0 no two
\* beams are in flight together.
C3_BoundedInFlight ==
    pc \notin {"parsed", "error"} =>
        /\ Cardinality(InFlight) <= Max2(requested, 1)
        /\ requested <= 1 => Cardinality(InFlight) <= 1

\* configured with 0: one beam is in flight and another waits for the permit
C3_Witness ==
    /\ requested = 0
    /\ permits = 0
    /\ \E a, b \in Names : task[a] = "started" /\ task[b] = "spawned"

\* C4: once a beam is in failed, no beam of a later level is started; the
\* other beams of the failing beam's level still reach a terminal outcome
\* before execute returns.
C4_FailFast ==
    \A f \in FailedNames :
        /\ \A b \in Planned : LevelOf(b) > LevelOf(f) => task[b] = "none"
        /\ pc = "returned" =>
               \A b \in Range(plan[LevelOf(f)].beams) : Terminal(b) /\ task[b] = "done"

\* execute returned after a failure in a level of two beams whose other beam
\* was executed, with a later level left unstarted
C4_Witness ==
    /\ pc = "returned"
    /\ \E f \in FailedNames :
          /\ LevelOf(f) < Len(plan)
          /\ \E b \in Range(plan[LevelOf(f)].beams) : b # f /\ b \in ExecutedNames

\* C5 as stated: every beam that execute processes holds a permit while its
\* work runs.
C5_Original ==
    \A b \in Names : task[b] = "started" => b \in holders

\* C5 amended: every beam of a level of several beams acquires a permit
\* before its work begins and gives it back when its processing is over,
\* whatever the outcome; the beam of a one-beam level runs in the calling
\* task without a permit.  When execute returns all permits are available,
\* and a task waiting for a permit is never stuck: a permit is free or a
\* holder is still running.
C5_Permits ==
    pc \notin {"parsed", "error"} =>
        /\ \A b \in Names :
              /\ (task[b] = "started" /\ Len(plan[LevelOf(b)].beams) # 1)
                    => b \in holders
              /\ (task[b] = "started" /\ Len(plan[LevelOf(b)].beams) = 1)
                    => b \notin holders
              /\ task[b] \in {"none", "spawned", "done"} => b \notin holders
        /\ permits + Cardinality(holders) = Max2(requested, 1)
        /\ permits >= 0
        /\ pc = "returned" => permits = Max2(requested, 1)
        /\ (\E b \in Names : task[b] = "spawned") => (permits > 0 \/ holders # {})

\* execute returned with a failed and a skipped beam that ran as spawned tasks
C5_Witness ==
    /\ pc = "returned"
    /\ permits = Max2(requested, 1)
    /\ \E a, b \in Names :
          /\ a \in FailedNames
          /\ b \in SkippedNames
          /\ LevelOf(a) = LevelOf(b)

----------------------------------------------------------------------------
\* the target of the last execute and everything it depends on
RequiredSet == {target} \cup TransDeps(target)

\* C6: in the plan every dependency of a beam of level k is in a level
\* strictly below k, so no two beams of one level are connected by a
\* dependency and the concatenated levels are a topological order.
C6_DepsInLowerLevels ==
    target # 0 =>
        /\ \A k \in 1..Len(plan) : \A b \in Range(plan[k].beams) : \A d \in beams[b] :
              \E j \in 1..Len(plan) : j < k /\ d \in Range(plan[j].beams)
        /\ \A k \in 1..Len(plan) : \A a, b \in Range(plan[k].beams) : a \notin beams[b]
        /\ LET all == all_beams(plan)
           IN \A j \in 1..Len(all) : \A d \in beams[all[j]] :
                 \E i \in 1..Len(all) : i < j /\ all[i] = d

\* a plan of three levels
C6_Witness ==
    /\ target # 0
    /\ Len(plan) = 3

\* C7: topological_order(T) holds exactly T and its transitive dependencies,
\* each once, every dependency at a smaller index than its dependents.
C7_TopologicalOrder ==
    target # 0 =>
        /\ Range(order) = RequiredSet
        /\ \A i, j \in 1..Len(order) : order[i] = order[j] => i = j
        /\ \A i, j \in 1..Len(order) : order[i] \in beams[order[j]] => i < j

\* an order of three beams, one of them a dependency the target does not
\* name itself
C7_Witness ==
    /\ target # 0
    /\ Len(order) = 3
    /\ TransDeps(target) # beams[target]

\* C8: the levels partition the required set of T: each required beam is in
\* exactly one level (once), no other beam is in a level, no level is empty.
C8_LevelsPartition ==
    target # 0 =>
        /\ \A b \in RequiredSet :
              Cardinality({k \in 1..Len(plan) : b \in Range(plan[k].beams)}) = 1
        /\ Planned = RequiredSet
        /\ Len(all_beams(plan)) = Cardinality(RequiredSet)
        /\ \A k \in 1..Len(plan) : plan[k].beams # <<>>

\* a plan of two levels for a Beamfile with a beam outside the required set
C8_Witness ==
    /\ target # 0
    /\ Len(plan) = 2
    /\ DOMAIN beams # Planned

\* C9: a required beam without dependencies is at level 0, any other at
\* 1 + the maximum level of its direct dependencies.
C9_EarliestLevel ==
    target # 0 =>
        \A b \in Planned :
            LevelOf(b) - 1 =
                IF beams[b] = {} THEN 0
                ELSE 1 + SetMax({LevelOf(d) - 1 : d \in beams[b]})

\* a beam with two direct dependencies that are at different levels
C9_Witness ==
    /\ target # 0
    /\ \E b \in Planned : \E d, e \in beams[b] : LevelOf(d) < LevelOf(e)

\* some depends_on names a beam that is not defined
MissingDep == \E n \in DOMAIN beams : \E d \in beams[n] : d \notin DOMAIN beams

RECURSIVE DepSteps(_, _)
\* the defined beams reached from the beams in S by exactly n depends_on steps
DepSteps(S, n) ==
    IF n = 0 THEN S
    ELSE DepSteps(UNION {beams[x] \cap DOMAIN beams : x \in S}, n - 1)

\* the depends_on relation has a cycle: among at most NumBeams beams there is
\* a chain of NumBeams depends_on steps exactly when some beam is met twice
HasCycle == DepSteps(DOMAIN beams, NumBeams) # {}

\* C10 as stated: construction of a cyclic Beamfile fails with CycleDetected.
C10_Original ==
    (pc # "parsed" /\ HasCycle) => (pc = "error" /\ ret = "CycleDetected")

\* C10 amended: construction fails with CycleDetected for every Beamfile
\* whose dependencies are all defined and whose depends_on has a cycle
\* (self-dependency included); with an undefined dependency it fails with
\* BeamNotFound, cyclic or not; from_beamfile succeeds when all the
\* dependencies are defined and acyclic; no executor and no plan exist for
\* a cyclic Beamfile.
C10_Construction ==
    pc # "parsed" =>
        /\ MissingDep => (pc = "error" /\ ret = "BeamNotFound")
        /\ (HasCycle /\ ~MissingDep) => (pc = "error" /\ ret = "CycleDetected")
        /\ (~HasCycle /\ ~MissingDep) => (pc = "error" => ret = "Io")
        /\ HasCycle => (pc = "error" /\ plan = <<>> /\ dag = EmptyDag)

\* construction failed with CycleDetected on a beam that depends on itself
\* and on nothing else in a cycle
C10_Witness ==
    /\ pc = "error"
    /\ ret = "CycleDetected"
    /\ \E b \in DOMAIN beams : beams[b] = {b}
    /\ \A b \in DOMAIN beams : beams[b] \subseteq {b}

\* C11: from_beamfile fails with BeamNotFound whenever some depends_on names
\* a beam that is not defined; the target lookup of topological_order (and so
\* parallel_levels and execute) fails with BeamNotFound for every name that
\* is not a defined beam; an execute that failed so has started no beam and
\* made no plan, and a running or finished execute has a defined target.
C11_BeamNotFound ==
    /\ (pc # "parsed" /\ MissingDep) => (pc = "error" /\ ret = "BeamNotFound")
    /\ pc \notin {"parsed", "error"} =>
          \A t \in Names \ DOMAIN beams : target_idx(dag, t) = "BeamNotFound"
    /\ (pc = "idle" /\ ret = "BeamNotFound") =>
          (task = NoTasks /\ plan = <<>> /\ order = <<>> /\ report = NewReport)
    /\ pc \in {"level", "direct", "spawn", "join", "returned"} =>
          (target \in DOMAIN beams /\ ret # "BeamNotFound")
    /\ \A b \in Names : Started(b) => b \in DOMAIN beams

\* execute failed with BeamNotFound on an executor whose Beamfile defines
\* some beams but not all the names
C11_Witness ==
    /\ pc = "idle"
    /\ ret = "BeamNotFound"
    /\ DOMAIN beams # {}
    /\ DOMAIN beams # Names

----------------------------------------------------------------------------
\* Vocabulary of the cache properties

\* what is_up_to_date answers for beam n now
UpToDate(n) == is_up_to_date(entries, Beam(n), fs)

\* the file at p exists and can be read
Readable(p) == fs[p] \in Contents

\* the paths beam n declares, inputs and outputs
Declared(n) == Range(defs[n].inputs) \cup Range(defs[n].outputs)

\* C12: is_up_to_date(beam) is true exactly when an entry exists for the
\* beam's name, its command fingerprint is the current one, and every
\* declared input and every declared output exists, can be hashed, and has
\* the hash stored for its path; a file that cannot be hashed gives false.
C12_Staleness ==
    \A n \in CacheBeams :
        UpToDate(n) <=>
            /\ n \in DOMAIN entries
            /\ entries[n].command_hash = hash_commands(Beam(n))
            /\ \A p \in Range(defs[n].inputs) :
                  /\ Readable(p)
                  /\ p \in DOMAIN entries[n].input_hashes
                  /\ entries[n].input_hashes[p] = blake3(fs[p])
            /\ \A p \in Range(defs[n].outputs) :
                  /\ Readable(p)
                  /\ p \in DOMAIN entries[n].output_hashes
                  /\ entries[n].output_hashes[p] = blake3(fs[p])

\* a beam with an input and an output is up to date, and the other beam has
\* an entry and is not
C12_Witness ==
    \E n, m \in CacheBeams :
        /\ defs[n].inputs # <<>>
        /\ defs[n].outputs # <<>>
        /\ UpToDate(n)
        /\ m \in DOMAIN entries
        /\ ~UpToDate(m)

\* C13 as stated: right after a record(b) that returned Ok, is_up_to_date(b)
\* is true, whatever the working directory holds.
C13_Original ==
    [][\A n \in CacheBeams : (CacheRecord(n) /\ ret' = "Ok") => UpToDate(n)']_vars

\* C13 amended: right after a record(b) that returned Ok, is_up_to_date(b) is
\* true if every declared input and output of b exists and can be read, and
\* false if one of them is missing or cannot be read (record skips it).
C13_RecordThenUpToDate ==
    [][\A n \in CacheBeams :
          (CacheRecord(n) /\ ret' = "Ok") =>
              (UpToDate(n)' <=> \A p \in Declared(n) : Readable(p))]_vars

\* a beam with an input and an output was recorded with success and is up
\* to date
C13_Witness ==
    /\ pc = "open"
    /\ ret = "Ok"
    /\ cache_json = to_string_pretty(entries)
    /\ \E n \in DOMAIN recorded :
          /\ defs[n].inputs # <<>>
          /\ defs[n].outputs # <<>>
          /\ UpToDate(n)

\* C14: after a record of b, while a declared input of b is not what that
\* record saw (other bytes, removed, unreadable), is_up_to_date(b) is false,
\* until the next record of b.
C14_InputChanged ==
    \A n \in DOMAIN recorded :
        (\E p \in Range(defs[n].inputs) : fs[p] # recorded[n].inputs[p]) => ~UpToDate(n)

\* a beam recorded with all its declared files readable has an entry, and
\* one of its inputs now has other bytes
C14_Witness ==
    \E n \in DOMAIN recorded :
        /\ n \in DOMAIN entries
        /\ \A p \in Declared(n) : Readable(p)
        /\ \A p \in Range(defs[n].inputs) : recorded[n].inputs[p] \in Contents
        /\ \E p \in Range(defs[n].inputs) : fs[p] # recorded[n].inputs[p]

\* C15: after a record of b, while the command list of b.run is not the
\* recorded one, is_up_to_date(b) is false.
C15_CommandChanged ==
    \A n \in DOMAIN recorded :
        defs[n].run.commands # recorded[n].run.commands => ~UpToDate(n)

\* no entry for n in memory nor in cache.json
NoEntry(n) == n \notin DOMAIN entries /\ n \notin DOMAIN from_str(cache_json)

\* C16: after a clear that returned Ok no beam has an entry, in memory or in
\* cache.json; a beam without entry stays so under every step that is not a
\* record of it (a new BuildCache on the directory included); and a beam
\* without entry is not up to date.
C16_Clear ==
    [][\A n \in CacheBeams :
          /\ (CacheClear /\ ret' = "Ok") => NoEntry(n)'
          /\ (NoEntry(n) /\ ~CacheRecord(n)) => NoEntry(n)'
          /\ NoEntry(n)' => ~UpToDate(n)']_vars

\* both beams were recorded and a third call, the clear, left the cache
\* empty in memory and on disk
C16_Witness ==
    /\ pc = "open"
    /\ ret = "Ok"
    /\ nops = 3
    /\ DOMAIN recorded = CacheBeams
    /\ entries = EmptyMap
    /\ cache_json = to_string_pretty(EmptyMap)

\* C17: invalidate(name) removes the entry of name and nothing else: name
\* has no entry and is not up to date afterwards, every other beam keeps its
\* entry and its is_up_to_date answer, and the map is unchanged when name
\* had no entry.
C17_Invalidate ==
    [][\A n \in CacheBeams :
          CacheInvalidate(n) =>
              /\ n \notin DOMAIN entries'
              /\ ~UpToDate(n)'
              /\ DOMAIN entries' = DOMAIN entries \ {n}
              /\ \A m \in DOMAIN entries' : entries'[m] = entries[m]
              /\ \A m \in CacheBeams \ {n} : UpToDate(m)' <=> UpToDate(m)
              /\ n \notin DOMAIN entries => entries' = entries]_vars

\* both beams were recorded, a third call invalidated one and the other one
\* is still up to date
C17_Witness ==
    /\ pc = "open"
    /\ nops = 3
    /\ DOMAIN recorded = CacheBeams
    /\ \E m \in CacheBeams : DOMAIN entries = {m} /\ UpToDate(m)

C19_ColdCache ==
    [][CacheNew =>
          \/ pc' = "open" /\ (cache_json.kind # "json" => entries' = EmptyMap)
          \/ cache_json.kind = "missing" /\ ret' = "Io"]_vars

\* the report of an execute in which every beam of the plan was skipped and
\* nothing ran or failed
AllSkipped ==
    /\ report.executed = <<>>
    /\ report.failed = <<>>
    /\ Range(report.skipped) = plan_beams(plan)
    /\ Len(report.skipped) = Cardinality(plan_beams(plan))

\* C20 as stated: with the cache on, an execute(T) that follows an
\* execute(T) which ran with the cache on, dry_run off and no failure, no
\* declared input having changed in between, returns executed = [],
\* skipped = every beam of the plan, failed = [].
C20_Original == (pc = "returned" /\ hist.second) => AllSkipped

\* C20: with the cache on, an execute(T) returns executed = [], skipped =
\* every beam of the plan, failed = [] when, at its start, every beam of the
\* plan is as its last successful record saw it (the declared inputs and
\* outputs and the commands are the same) and every declared input and
\* output is there and readable.
C20_SecondRun == (pc = "returned" /\ hist.clean) => AllSkipped

\* the second execute of the three-beam plan, nothing else having happened
\* in between, found the three beams cached
C20_Witness ==
    /\ pc = "returned"
    /\ hist.clean
    /\ hist.second
    /\ Len(report.skipped) = 3
    /\ cache_json = to_string_pretty(entries)
    /\ nops = 2

\* the beams of a list of the report
Listed(l) == Range(l)

----------------------------------------------------------------------------
\* Vocabulary of the properties of execute_beam

\* the entries of the log that are exits
Exits == {i \in DOMAIN bx.log : bx.log[i].ev = "exit"}

\* the command a log entry is about
CommandAt(i) == block_at(bx.beam, bx.log[i].pos).commands[bx.log[i].pos.c]

\* the block failed at the command of log entry i: it is the last entry and
\* the result is the error
FailedAt(i) == i = Len(bx.log) /\ ~bx.running /\ bx.result.kind = "CommandFailed"

\* the run block of log entry i is the main one
InMain(i) == bx.log[i].pos.stage = "main"

\* C22: a beam whose condition evaluates false is added to skipped, its
\* terminal event is Skipped{ConditionFalse}, none of its commands was
\* started and the cache did not record it.
C22_ConditionFalse ==
    bx.at # "none" /\ bx.result.kind = "SkippedConditionFalse" =>
        /\ bx.beam.condition
        /\ bx.log = <<>>
        /\ ~bx.recorded
        /\ bx.at \in {"result", "done"}
        /\ bx.at = "done" =>
             /\ bx.list = "skipped"
             /\ bx.events = <<[kind |-> "Started"],
                              [kind |-> "Skipped", reason |-> "ConditionFalse"]>>

\* a beam with pre-hooks, a run block and post-hooks was skipped for its
\* condition
C22_Witness ==
    /\ bx.at = "done"
    /\ bx.result.kind = "SkippedConditionFalse"
    /\ bx.beam.pre_hooks # <<>>
    /\ bx.beam.run.present
    /\ bx.beam.post_hooks # <<>>
    /\ bx.use_cache

\* C23: in a run block with fail_fast, a command that exits non-zero is the
\* last command of the beam that was started, and the result is
\* CommandFailed with that command, its exit code and its stderr.
C23_FailFast ==
    bx.at # "none" =>
      \A i \in Exits :
        LET e == bx.log[i]
        IN (e.o.ok /\ e.o.exit_code # 0 /\ block_at(bx.beam, e.pos).fail_fast) =>
             /\ i = Len(bx.log)
             /\ ~bx.running
             /\ bx.at \in {"result", "done"}
             /\ bx.result = [kind |-> "CommandFailed", command |-> CommandAt(i),
                             exit_code |-> <<e.o.exit_code>>, stderr |-> <<e.o.stderr>>]

\* the first of the two commands of a fail_fast run block exited with 1: the
\* second one was not started
C23_Witness ==
    /\ bx.at = "done"
    /\ bx.beam.run.present
    /\ bx.beam.run.fail_fast
    /\ Len(bx.beam.run.commands) = 2
    /\ bx.beam.post_hooks # <<>>
    /\ bx.result.kind = "CommandFailed"
    /\ bx.result.exit_code = <<1>>
    /\ InMain(Len(bx.log))
    /\ bx.log[Len(bx.log)].pos.c = 1

\* C24: in a run block without fail_fast, an exit code never ends the
\* block: the block fails only at a command that could not be run, all its
\* commands are started in order when none fails so, and the beam is not
\* failed because of an exit code of its main run block (it is in executed
\* when nothing else of the beam fails).
C24_NoFailFast ==
    (bx.at # "none" /\ bx.beam.run.present /\ ~bx.beam.run.fail_fast) =>
        /\ \A i \in Exits : (InMain(i) /\ bx.log[i].o.ok) => ~FailedAt(i)
        /\ \A i \in Exits :
             (InMain(i) /\ bx.log[i].o.ok /\ bx.log[i].pos.c < Len(bx.beam.run.commands)) =>
                LET next == [bx.log[i].pos EXCEPT !.c = @ + 1]
                IN IF i < Len(bx.log)
                   THEN bx.log[i + 1] = [ev |-> "start", pos |-> next]
                   ELSE bx.at = "commands" /\ bx.pos = next
        /\ (bx.at = "done" /\ bx.list = "failed") =>
             \/ bx.result.kind = "Io"
             \/ ~InMain(Len(bx.log))
             \/ ~bx.log[Len(bx.log)].o.ok
        /\ (bx.at = "done" /\ bx.log # <<>> /\ bx.beam.post_hooks = <<>>
              /\ InMain(Len(bx.log)) /\ bx.log[Len(bx.log)].o.ok /\ bx.result.kind # "Io")
             => bx.list = "executed"

\* both commands of a run block without fail_fast exited non-zero and the
\* beam is in executed
C24_Witness ==
    /\ bx.at = "done"
    /\ bx.list = "executed"
    /\ bx.beam.run.present
    /\ ~bx.beam.run.fail_fast
    /\ Cardinality({i \in Exits : InMain(i) /\ bx.log[i].o.exit_code # 0}) = 2

RECURSIVE HookCommands(_, _, _)
\* the commands of the hooks h.. of a stage, hook after hook
HookCommands(stage, hooks, h) ==
    IF h > Len(hooks) THEN <<>>
    ELSE [c \in 1..Len(hooks[h].commands) |-> [stage |-> stage, h |-> h, c |-> c]]
            \o HookCommands(stage, hooks, h + 1)

\* the commands of a beam in the order of its declaration: the pre-hooks,
\* the main run block, the post-hooks
Program(beam) ==
    HookCommands("pre", beam.pre_hooks, 1)
        \o [c \in 1..Len(beam.run.commands) |-> [stage |-> "main", h |-> 0, c |-> c]]
        \o HookCommands("post", beam.post_hooks, 1)

\* C25: within a beam the commands run one at a time in the order of the
\* declaration (pre-hooks, main run block, post-hooks): the k-th command
\* started is the k-th command of the beam, it starts after the previous
\* one has exited, and a beam whose commands all succeeded has run them all.
C25_Sequential ==
    bx.at # "none" =>
        /\ \A i \in DOMAIN bx.log :
             IF i % 2 = 1
             THEN bx.log[i] = [ev |-> "start", pos |-> Program(bx.beam)[(i + 1) \div 2]]
             ELSE bx.log[i].ev = "exit" /\ bx.log[i].pos = bx.log[i - 1].pos
        /\ bx.running <=> Len(bx.log) % 2 = 1
        /\ Len(bx.log) <= 2 * Len(Program(bx.beam))
        /\ bx.at = "record" => Len(bx.log) = 2 * Len(Program(bx.beam))

\* a beam with two pre-hooks, two main commands and two post-hooks has run
\* all its commands, seven at least
C25_Witness ==
    /\ bx.at = "done"
    /\ bx.list = "executed"
    /\ Len(bx.beam.pre_hooks) = 2
    /\ Len(bx.beam.run.commands) = 2
    /\ Len(bx.beam.post_hooks) = 2
    /\ Len(bx.log) >= 14

\* C26: the callback receives Started first and then exactly one terminal
\* event, when the beam is added to the report: Completed with executed,
\* Skipped with skipped, Failed with failed.
C26_Events ==
    bx.at # "none" =>
        /\ bx.at = "call" <=> bx.events = <<>>
        /\ bx.at \notin {"call", "done"} => bx.events = <<[kind |-> "Started"]>>
        /\ bx.at # "done" <=> bx.list = "none"
        /\ bx.at = "done" =>
             /\ Len(bx.events) = 2
             /\ bx.events[1] = [kind |-> "Started"]
             /\ \/ bx.events[2].kind = "Completed" /\ bx.list = "executed"
                \/ bx.events[2].kind = "Skipped" /\ bx.list = "skipped"
                \/ bx.events[2].kind = "Failed" /\ bx.list = "failed"

\* a beam whose post-hook failed got Started and then Failed
C26_Witness ==
    /\ bx.at = "done"
    /\ bx.list = "failed"
    /\ bx.log # <<>>
    /\ bx.log[Len(bx.log)].pos.stage = "post"
    /\ bx.events = <<[kind |-> "Started"], [kind |-> "Failed"]>>

\* C27: execute returns Ok(report) once the plan is built; a beam whose
\* commands, hooks or cache record failed is added to report.failed with
\* the error string, and nothing is ever taken off report.failed before
\* the report is returned.
C27_FailuresInReport ==
    [][/\ pc' = "returned" => ret' = "Ok"
       /\ \A b \in RunBeams :
            (task[b] = "Err" /\ task'[b] = "done") =>
                \E f \in Range(report'.failed) : f[1] = b
       /\ pc \notin {"parsed", "idle", "returned"} =>
            Range(report.failed) \subseteq Range(report'.failed)]_vars

\* an execute whose beam failed returned its report with the failure in it
C27_Witness ==
    /\ pc = "returned"
    /\ ret = "Ok"
    /\ report.failed # <<>>
    /\ report.executed # <<>>

\* both functions have been called on the input
BothCalled == sx.at = "called" /\ sx.result # NotCalled /\ sx.contains # <<>>

\* the input with every pair of dollars, read from the left, made one dollar
RECURSIVE Unescaped(_)
Unescaped(s) ==
    IF s = <<>> THEN <<>>
    ELSE IF Len(s) >= 2 /\ s[1] = "$" /\ s[2] = "$"
         THEN <<"$">> \o Unescaped(SubSeq(s, 3, Len(s)))
         ELSE <<s[1]>> \o Unescaped(Tail(s))

\* C28 as stated: contains_variables(s) is true if and only if some context
\* makes interpolate(s, ctx) differ from s.
C28_Original ==
    BothCalled =>
        (sx.contains[1] <=> \E ctx \in Contexts : interpolate(sx.input, ctx) # Ok(sx.input))

\* C28: when contains_variables(s) is false, interpolate(s, ctx) succeeds in
\* every context and gives s with each escaped pair of dollars made one dollar;
\* when it is true, interpolate(s, ctx) is not Ok(s) in the context that
\* defines nothing.
C28_Variables ==
    BothCalled =>
        /\ ~sx.contains[1] => sx.result = Ok(Unescaped(sx.input))
        /\ sx.contains[1] /\ sx.ctx = EmptyContext => sx.result # Ok(sx.input)

\* a string with no reference that interpolate changes
C28_Witness ==
    /\ BothCalled
    /\ ~sx.contains[1]
    /\ sx.result.ok
    /\ sx.result.value # sx.input
    /\ sx.ctx = EmptyContext

\* C29 as stated: a pre-hook is run with fail_fast = hook.fail_on_error: a
\* non-zero exit of a command of a pre-hook with fail_on_error fails the beam
\* there, and a non-zero exit in a pre-hook without fail_on_error does not
\* fail the beam.
C29_HookFailOnError ==
    bx.at # "none" =>
      \A i \in Exits :
        LET e == bx.log[i]
        IN (e.pos.stage = "pre" /\ e.o.ok /\ e.o.exit_code # 0) =>
             /\ block_at(bx.beam, e.pos).fail_fast = bx.beam.pre_hooks[e.pos.h].fail_on_error
             /\ bx.beam.pre_hooks[e.pos.h].fail_on_error => FailedAt(i)
             /\ ~bx.beam.pre_hooks[e.pos.h].fail_on_error => ~FailedAt(i)

\* the main run block returned an error: the result is the error of a
\* command of the main run block
MainError ==
    /\ bx.log # <<>>
    /\ InMain(Len(bx.log))
    /\ FailedAt(Len(bx.log))

\* C30: when the main run block returns an error, no command of a post-hook
\* is started, the cache does not record the beam, and the beam is added to
\* failed with the event Failed.
C30_MainError ==
    (bx.at # "none" /\ MainError) =>
        /\ \A i \in 1..Len(bx.log) : bx.log[i].pos.stage # "post"
        /\ ~bx.recorded
        /\ bx.at \in {"result", "done"}
        /\ bx.at = "done" =>
             /\ bx.list = "failed"
             /\ bx.events[Len(bx.events)].kind = "Failed"

\* a command of a main run block without fail_fast could not be run, and the
\* beam, which has post-hooks, is in failed
C30_Witness ==
    /\ bx.at = "done"
    /\ MainError
    /\ ~bx.beam.run.fail_fast
    /\ bx.result.exit_code = <<>>
    /\ bx.beam.post_hooks # <<>>
    /\ bx.use_cache
    /\ bx.list = "failed"

\* C31 as stated: during an execute the cache (the entry map and cache.json)
\* changes only in the step of a beam that ran all its commands with
\* use_cache and without dry_run and that ends as executed; a beam that ends
\* failed leaves it as it was.
C31_CacheWrites ==
    [][(pc \in {"direct", "spawn", "join"} /\ pc' \in {"direct", "spawn", "join"}
          /\ (entries' # entries \/ cache_json' # cache_json)) =>
         \E b \in RunBeams :
            /\ opts.use_cache
            /\ ~opts.dry_run
            /\ task[b] = "ran"
            /\ task'[b] = "Executed"]_vars

\* C39 as stated: a record, invalidate or clear that changes the entry map
\* of an open cache returns Ok: when the write of cache.json fails the map
\* is left as it was.
C39_WriteFailure ==
    [][(pc = "open" /\ pc' = "open" /\ entries' # entries) => ret' = "Ok"]_vars

\* the condition of the call has been evaluated
Evaluated == cx.at \in {"dry_run", "hooks", "done"} /\ cx.value # <<>>

\* the shell commands the children 1..k of a list run, each child evaluated
\* on its own
RECURSIVE RanUpTo(_, _, _)
RanUpTo(conditions, k, env) ==
    IF k = 0 THEN <<>>
    ELSE RanUpTo(conditions, k - 1, env) \o evaluate_condition(conditions[k], env).ran

\* the children of a list whose value, each evaluated on its own, is v
Having(conditions, v, env) ==
    {j \in 1..Len(conditions) : evaluate_condition(conditions[j], env).value = v}

Least(S) == CHOOSE j \in S : \A k \in S : j <= k

\* C32: an And is false at its first false child and runs the commands of
\* the children up to that one only (true, and all children, when none is
\* false); an Or is true at its first true child and runs the commands of
\* the children up to that one only (false, and all children, when none is
\* true); a Not has the opposite value of its child and runs what it runs.
C32_ShortCircuit ==
    Evaluated =>
        LET c == cx.condition[1]
        IN  /\ c.op = "And" =>
                 LET falseAt == Having(c.args, FALSE, cx.env)
                     last == IF falseAt = {} THEN Len(c.args) ELSE Least(falseAt)
                 IN  /\ cx.value = <<falseAt = {}>>
                     /\ cx.ran = RanUpTo(c.args, last, cx.env)
            /\ c.op = "Or" =>
                 LET trueAt == Having(c.args, TRUE, cx.env)
                     last == IF trueAt = {} THEN Len(c.args) ELSE Least(trueAt)
                 IN  /\ cx.value = <<trueAt # {}>>
                     /\ cx.ran = RanUpTo(c.args, last, cx.env)
            /\ c.op = "Not" =>
                 /\ cx.value = <<~evaluate_condition(c.arg, cx.env).value>>
                 /\ cx.ran = evaluate_condition(c.arg, cx.env).ran

\* an And of three commands whose first command fails: the two others were
\* not run and the beam is skipped
C32_Witness ==
    /\ Evaluated
    /\ cx.condition[1].op = "And"
    /\ Len(cx.condition[1].args) = 3
    /\ cx.value = <<FALSE>>
    /\ cx.ran = <<"c1">>
    /\ cx.env.cmd["c2"] = "exit 0"
    /\ cx.result = "SkippedConditionFalse"

\* C33 as stated: a call of execute_beam_inner in dry-run mode spawns no
\* shell command, the commands of conditions included.
C33_DryRunNoCommand ==
    (cx.at # "none" /\ cx.dry_run) => cx.ran = <<>>

\* the names of the three lists of the report, one after the other
AllListed ==
    report.executed \o report.skipped
        \o [i \in 1..Len(report.failed) |-> report.failed[i][1]]

\* C34: when execute returns its report, no beam name occurs twice in
\* executed, skipped and failed together, every listed name is a beam of
\* the plan, every beam that was started is listed, and when failed is
\* empty every beam of the plan is listed.
C34_ReportLists ==
    (pc = "returned" /\ ret = "Ok") =>
        /\ \A i, j \in 1..Len(AllListed) : AllListed[i] = AllListed[j] => i = j
        /\ Range(AllListed) \subseteq Planned
        /\ \A b \in Names : Started(b) => b \in Range(AllListed)
        /\ report.failed = <<>> => Range(AllListed) = Planned

\* a plan of three beams returned with nothing failed and beams in both
\* executed and skipped
C34_Witness ==
    /\ pc = "returned"
    /\ ret = "Ok"
    /\ report.failed = <<>>
    /\ report.executed # <<>>
    /\ report.skipped # <<>>
    /\ Len(AllListed) = 3

\* C35: between two levels, when no beam has failed (the beams before are
\* executed or skipped, for either reason), execute does not return: it
\* starts the next level of the plan.  A beam is started with a dependency
\* that was skipped like with one that was executed.
C35_SkippedGoesOn ==
    (pc = "level" /\ lvl <= Len(plan) /\ report.failed = <<>>) =>
        /\ ENABLED (RunSingle \/ Spawn)
        /\ ~ENABLED Return
        /\ \A k \in 1..(lvl - 1) :
             Range(plan[k].beams) \subseteq ExecutedNames \cup SkippedNames

\* a beam was started although a beam it depends on was skipped
C35_Witness ==
    \E b \in Names :
        /\ Started(b)
        /\ beams[b] \cap SkippedNames # {}
        /\ beams[b] \cap ExecutedNames # {}

\* C36: a plan built for a target has the target alone in its last level:
\* the target is never handed to a spawned task, and when it is started
\* every other beam of the plan has its outcome.
C36_TargetLast ==
    (plan # <<>> /\ target # 0) =>
        /\ plan[Len(plan)].beams = <<target>>
        /\ task[target] # "spawned"
        /\ Started(target) =>
             /\ pc \in {"direct", "level", "returned"}
             /\ \A b \in Planned \ {target} : Terminal(b)

\* the target of a plan of three levels is running in the calling task
C36_Witness ==
    /\ plan # <<>>
    /\ Len(plan) = 3
    /\ pc = "direct"
    /\ task[target] = "started"

\* the entry of beam n, when there is one
EntryOf(ents, n) == IF n \in DOMAIN ents THEN <<ents[n]>> ELSE <<>>

\* C40: a step that leaves the command strings of a beam's run block, its
\* declared files' contents and its cache entry as they were leaves
\* is_up_to_date of the beam as it was, whatever else changes: its hooks,
\* its env, its condition, its depends_on, other files, or the entry of
\* another beam that was recorded again.  A beam that is up to date after a
\* record stays so.
C40_DependsOnlyOn ==
    [][\A n \in CacheBeams :
         (/\ pc = "open" /\ pc' = "open"
          /\ defs'[n].run.commands = defs[n].run.commands
          /\ defs'[n].run.present = defs[n].run.present
          /\ defs'[n].inputs = defs[n].inputs
          /\ defs'[n].outputs = defs[n].outputs
          /\ \A p \in Declared(n) : fs'[p] = fs[p]
          /\ EntryOf(entries', n) = EntryOf(entries, n))
         => (UpToDate(n)' = UpToDate(n))]_vars

\* beam 2 is up to date although, since it was recorded, its hooks, its env
\* and its depends_on were changed
C40_Witness ==
    /\ pc = "open"
    /\ UpToDate(2)
    /\ nops = MaxOps
    /\ defs[2].pre_hooks # <<>>
    /\ beams[2] = {1}
    /\ 1 \notin DOMAIN entries

\* C37 as stated: a call of execute_with_streaming that has not returned can
\* always take a step (the child, a reader or the caller goes on), whatever
\* the numbers of lines: no reader waits for ever on its channel.
C37_NeverBlocked ==
    (rx.at \notin {"none", "returned"}) => ENABLED StreamNext

\* C38 as stated: no file-change event is lost: when the loop waits in
\* rx.recv() with nothing in the channel, every event delivered so far has
\* been followed by the start of a rebuild.
C38_NoEventLost ==
    (wx.at = "recv" /\ wx.queued = 0) => ~wx.unserved

====
